---- MODULE Spec2Model ----
(***************************************************************************)
(* PacsSync: the DICOM network interface (DicomNetworkInterfaceImp), the   *)
(* HTTP find endpoint and the metadata reconciler (DicomMetadataHandler).  *)
(*                                                                         *)
(* The specifications of the module:                                       *)
(*   Spec      - one network operation against the remote archive: the     *)
(*               association, the response stream, the store callbacks     *)
(*               and the returned DicomResult;                             *)
(*   SpecQuery - the query template built by find_studies, called directly *)
(*               or through the HTTP find endpoint;                        *)
(*   SpecMeta  - extract_full_metadata followed by extract_dicom_metadata  *)
(*               on one record (SpecFrames: on the records of the frame    *)
(*               count);                                                   *)
(*   SpecAgg   - the storage contexts and the series list of               *)
(*               find_and_get_study (SpecConvert: on datasets whose fields *)
(*               are hard to convert);                                     *)
(*   SpecTags  - one call of a tag mutator of a DicomMetadataHandler;      *)
(*   SpecCalls - two retrieval calls in flight on the same interface.      *)
(***************************************************************************)
EXTENDS Integers, Sequences, FiniteSets, TLC

VARIABLES
    \* ---- network operation (Spec)
    op,                 \* the operation called on DicomNetworkInterfaceImp
    pc,                 \* its position
    assocs,             \* the associations it opened, in order; the last is current
    stream,             \* the responses consumed so far from the current stream
    results,            \* find_studies: the local list `results`
    received_datasets,  \* C-GET: the list filled by handle_store
    ctr,                \* C-GET: completed/total_instances/remaining/failed/warning
    find_result,        \* find_and_get_study: what find_studies returned
    study_instance_uid, \* the argument of the retrieval operations
    raised,             \* the exception caught by the in-flight handler, if any
    result,             \* the DicomResult returned to the caller
    data,               \* its data field
    \* ---- query template (SpecQuery)
    qpc, http_args, query_params, ds,
    \* ---- metadata reconciliation (SpecMeta)
    mpc, dicom, extractor, metadata,
    \* ---- aggregation of find_and_get_study (SpecAgg)
    fpc,                \* its position
    discovered,         \* study_details = find_result.data[0], the discovery record
    requested,          \* the storage contexts handed to ae.add_requested_context, in order
    received,           \* the datasets handle_store collected, in arrival order
    series_list,        \* the sorted series list of the result
    summary,            \* the summary of the result
    \* ---- tag mutators of the two DicomMetadataHandler classes (SpecTags)
    tpc,                \* "ready" before the call, "returned" after it
    elements,           \* self.dicom: the elements of the record, by tag
    called,             \* the call made: class, method, arguments, record before
    returned,           \* what it returned, or the exception it raised
    isinstance_raises,  \* whether isinstance(tag, pydicom.tag.Tag) raises TypeError
    \* ---- retrieval calls in flight on one DicomNetworkInterfaceImp (SpecCalls)
    calls               \* the frame of each call: its locals and what the peer sent it

netVars   == <<op, pc, assocs, stream, results, received_datasets, ctr,
               find_result, study_instance_uid, raised, result, data>>
queryVars == <<qpc, http_args, query_params, ds>>
metaVars  == <<mpc, dicom, extractor, metadata>>
aggVars   == <<fpc, discovered, requested, received, series_list, summary>>
tagVars   == <<tpc, elements, called, returned, isinstance_raises>>
callVars  == <<calls>>
vars      == <<netVars, queryVars, metaVars, aggVars, tagVars, callVars>>

\* A step of one specification leaves the state of the others alone.
OnlyNet   == UNCHANGED <<queryVars, metaVars, aggVars, tagVars, callVars>>
OnlyQuery == UNCHANGED <<netVars, metaVars, aggVars, tagVars, callVars>>
OnlyMeta  == UNCHANGED <<netVars, queryVars, aggVars, tagVars, callVars>>
OnlyAgg   == UNCHANGED <<netVars, queryVars, metaVars, tagVars, callVars>>
OnlyTags  == UNCHANGED <<netVars, queryVars, metaVars, aggVars, callVars>>
OnlyCalls == UNCHANGED <<netVars, queryVars, metaVars, aggVars, tagVars>>

\* The longest response stream the remote peer sends.
MaxStream == 3
\* The most datasets the remote peer pushes through the store callback.
MaxStore == 2

-----------------------------------------------------------------------------
(* Python values *)

\* A Python value: its runtime type and its content (the text of a str, the
\* number of an int, the length of a bytes, the items of a list).
Py(t, s) == [s |-> s, py |-> t]
\* str() of a multi-valued element, on the values the model's records hold.
StrMulti(parts) ==
    CASE parts = <<"0.5", "0.5">> -> "[0.5, 0.5]"
      [] parts = <<"0.3", "0.4">> -> "[0.3, 0.4]"
      [] OTHER -> "[?]"
\* str(value)
Str(v) ==
    CASE v.py = "int" -> Py("str", ToString(v.s))
      [] v.py = "MultiValue" -> Py("str", StrMulti(v.s))
      [] v.py = "NoneType" -> Py("str", "None")
      [] OTHER -> Py("str", v.s)

-----------------------------------------------------------------------------
(* The transport primitive (pynetdicom), as the code uses it *)

\* A status dataset: `valid` is its truth value (an empty Dataset is false),
\* `attrs` the sub-operation counters it carries (hasattr).
St(code, attrs) == [valid |-> TRUE, Status |-> code, attrs |-> attrs]
NoStatus == [valid |-> FALSE, Status |-> 0, attrs |-> <<>>]

Counts(c, r, f, w) ==
    [NumberOfCompletedSuboperations |-> c, NumberOfRemainingSuboperations |-> r,
     NumberOfFailedSuboperations |-> f, NumberOfWarningSuboperations |-> w]
\* The counters of a final response: no remaining count.
FinalCounts(c, f, w) ==
    [NumberOfCompletedSuboperations |-> c,
     NumberOfFailedSuboperations |-> f, NumberOfWarningSuboperations |-> w]

hasattr(status, name) == name \in DOMAIN status.attrs

\* pynetdicom.status.code_to_category
code_to_category(code) ==
    CASE code = 0 -> "Success"
      [] code \in {65280, 65281} -> "Pending"
      [] code = 65024 -> "Cancel"
      [] code \in {1, 263, 278} \/ code \div 4096 = 11 -> "Warning"
      [] code \div 4096 \in {10, 12} \/ code \div 256 \in {1, 2} -> "Failure"
      [] OTHER -> "Unknown"

\* An association as returned by ae.associate(): established when the peer
\* accepted it.
associate(kind, accepted, request) ==
    [kind |-> kind, accepted |-> accepted, is_established |-> accepted,
     request |-> request, sent |-> FALSE, drained |-> FALSE,
     release_calls |-> 0, abort_calls |-> 0]
release(a) == [a EXCEPT !.release_calls = @ + 1, !.is_established = FALSE]
abort(a)   == [a EXCEPT !.abort_calls = @ + 1, !.is_established = FALSE]
send(a)    == [a EXCEPT !.sent = TRUE]

Cur == assocs[Len(assocs)]
SetCur(a) == [assocs EXCEPT ![Len(assocs)] = a]

\* The exceptions the transport or the processing may raise (str(e)).
Exceptions == {"E1", "E2"}
NotRaised == [e |-> "", established |-> FALSE]

\* DicomResult(success, message, status_code); `exc` is the str(e) the message
\* is formatted with ("" when the message is a literal).
DicomResult(success, message, exc, status_code) ==
    [success |-> success, message |-> message, exc |-> exc,
     status_code |-> status_code]
NoResult == DicomResult(FALSE, "", "", 0)

-----------------------------------------------------------------------------
(* Records on the wire *)

Elem(keyword, VR, value) == [keyword |-> keyword, VR |-> VR, value |-> value]
Range(q) == {q[i] : i \in DOMAIN q}

\* `if identifier:` - None and the empty Dataset are false.
NoIdentifier == [none |-> TRUE, elems |-> <<>>]
Identifier(elems) == [none |-> FALSE, elems |-> elems]
Truthy(identifier) == ~identifier.none /\ Len(identifier.elems) > 0

\* The identifiers a C-FIND peer answers with: no identifier, an empty one,
\* and two study records (the second holds a private element, which has no
\* keyword, and the PixelData the HTTP find endpoint asks for).
IdA == Identifier(<<Elem("PatientName", "PN", Py("PersonName", "DOE^A")),
                    Elem("ModalitiesInStudy", "CS", Py("str", "CT"))>>)
IdB == Identifier(<<Elem("StudyDate", "DA", Py("DA", "20240101")),
                    Elem("", "UN", Py("bytes", 2)),
                    Elem("PixelData", "OW", Py("bytes", 6)),
                    Elem("ModalitiesInStudy", "CS", Py("MultiValue", <<"MR", "XA">>))>>)
IdEmpty == Identifier(<<>>)

-----------------------------------------------------------------------------
(* Query Builder: find_studies, lines 200-211, and the HTTP find endpoint *)

PyNone == Py("NoneType", "")
\* The truth value of an Optional[str].
IsTrue(v) == v.py # "NoneType" /\ v.s # ""
\* Python's `x or y`
Or(x, y) == IF IsTrue(x) THEN x ELSE y

QueryRetrieveLevel_NoExclusion(qp) ==
    IF "PatientID" \in DOMAIN qp THEN "PATIENT"
    ELSE IF "StudyInstanceUID" \in DOMAIN qp /\ "SeriesInstanceUID" \notin DOMAIN qp
         THEN "STUDY"
    ELSE IF "SeriesInstanceUID" \in DOMAIN qp THEN "SERIES"
    ELSE "STUDY"

\* The if/elif chain that sets ds.QueryRetrieveLevel.
QueryRetrieveLevel(qp) ==
    IF /\ "PatientID" \in DOMAIN qp
       /\ ~(\E param \in {"StudyInstanceUID", "SeriesInstanceUID"} : param \in DOMAIN qp)
    THEN "PATIENT"
    ELSE IF "StudyInstanceUID" \in DOMAIN qp /\ "SeriesInstanceUID" \notin DOMAIN qp
         THEN "STUDY"
    ELSE IF "SeriesInstanceUID" \in DOMAIN qp THEN "SERIES"
    ELSE "STUDY"

\* ds after `for key, value in query_params.items(): setattr(ds, key, value)`
\* and the level assignment.
QueryTemplate(qp) ==
    [k \in DOMAIN qp \cup {"QueryRetrieveLevel"} |->
        IF k = "QueryRetrieveLevel" THEN Py("str", QueryRetrieveLevel(qp)) ELSE qp[k]]

\* The optional parameters of the HTTP find endpoint.
HttpParams == {"PatientID", "StudyInstanceUID", "AccessionNumber",
               "ModalitiesInStudy", "PatientName"}
\* The keys the endpoint always passes blank.
HttpBlankKeys == {"StudyDate", "StudyTime", "StudyDescription",
                  "NumberOfStudyRelatedSeries", "PixelData"}

HttpQueryParams_OmitNull(args) ==
    [k \in {p \in HttpParams : args[p].py # "NoneType"} \cup HttpBlankKeys |->
        IF k \in HttpParams THEN args[k] ELSE Py("str", "")]

\* query_params as the endpoint builds it: `X or ""` for each parameter.
HttpQueryParams(args) ==
    [k \in HttpParams \cup HttpBlankKeys |->
        IF k \in HttpParams THEN Or(args[k], Py("str", "")) ELSE Py("str", "")]

\* query_params as find_and_get_study builds it (lines 642-653).
FagQueryParams(uid) ==
    [k \in {"StudyInstanceUID", "ModalitiesInStudy", "StudyDescription",
            "PatientName", "PatientID", "StudyDate", "StudyTime",
            "AccessionNumber", "NumberOfStudyRelatedSeries",
            "NumberOfStudyRelatedInstances"} |->
        IF k = "StudyInstanceUID" THEN Py("str", uid) ELSE Py("str", "")]

-----------------------------------------------------------------------------
(* SpecQuery: the template of one find_studies call *)

\* Every dict over a subset of `keys` with values in `vals`.
Dicts(keys, vals) == UNION {[sub -> vals] : sub \in SUBSET keys}

\* The keys a direct caller passes: the three identifying keys and a filter.
DirectKeys == {"PatientID", "StudyInstanceUID", "SeriesInstanceUID", "PatientName"}
\* What a caller passes for one field: blank or a value.
FilterValues == {Py("str", ""), Py("str", "X1")}
\* What the HTTP layer hands the endpoint for one optional parameter.
HttpValues == {PyNone} \cup FilterValues

QueryIdle ==
    /\ qpc = "idle"
    /\ http_args = [p \in HttpParams |-> PyNone]
    /\ query_params = <<>>
    /\ ds = <<>>

\* find_studies(query_params), up to the association: ds is built.
find_studies_template(qp) ==
    /\ OnlyQuery
    /\ qpc = "idle"
    /\ qpc' = "direct"
    /\ query_params' = qp
    /\ ds' = QueryTemplate(qp)
    /\ UNCHANGED http_args

\* GET /dicom_net/find_studie: the endpoint builds query_params and calls
\* find_studies with it.
http_find_studies(args) ==
    /\ OnlyQuery
    /\ qpc = "idle"
    /\ qpc' = "http"
    /\ http_args' = args
    /\ query_params' = HttpQueryParams(args)
    /\ ds' = QueryTemplate(HttpQueryParams(args))

-----------------------------------------------------------------------------
(* Metadata Extractor and Reconciler: services/dicom_meta_data_handler.py *)

\* A record (pydicom Dataset): its elements by tag and its file_meta
\* attributes by name.
Record(elems, file_meta) == [elems |-> elems, file_meta |-> file_meta]

\* pydicom's keyword dictionary, for the attributes the extractor reads.
tag_for_keyword(kw) ==
    CASE kw = "StudyInstanceUID"  -> "0020000D"
      [] kw = "SeriesInstanceUID" -> "0020000E"
      [] kw = "SOPInstanceUID"    -> "00080018"
      [] kw = "SOPClassUID"       -> "00080016"
      [] kw = "StudyDescription"  -> "00081030"
      [] kw = "SeriesDescription" -> "0008103E"
      [] kw = "Modality"          -> "00080060"
      [] kw = "PatientID"         -> "00100020"
      [] kw = "IssuerOfPatientID" -> "00100021"
      [] kw = "PixelSpacing"      -> "00280030"
      [] kw = "NumberOfFrames"    -> "00280008"
      [] kw = "Rows"              -> "00280010"
      [] kw = "Columns"           -> "00280011"
      [] kw = "BitsAllocated"     -> "00280100"
      [] kw = "PixelData"         -> "7FE00010"
      [] OTHER                    -> "none"

\* '; '.join(str(v) for v in value) and its inverse text.split('; '), on the
\* texts the model's records hold.
JoinSemi(parts) ==
    CASE parts = <<"0.5", "0.5">> -> "0.5; 0.5"
      [] parts = <<"0.3", "0.4">> -> "0.3; 0.4"
      [] OTHER -> "?"
SplitSemi(text) ==
    CASE text = "0.5; 0.5" -> <<"0.5", "0.5">>
      [] text = "0.3; 0.4" -> <<"0.3", "0.4">>
      [] OTHER -> <<text>>

\* _get_dicom_tag(tag, default=""): the element's value as text, the default
\* when the lookup raises.
get_dicom_tag(d, tag) ==
    IF tag \notin DOMAIN d.elems THEN Py("str", "")
    ELSE LET value == d.elems[tag] IN
         IF value.py = "MultiValue" THEN Py("str", JoinSemi(value.s))
         ELSE Str(value)

\* The truth value of an element value or attribute default.
ValueIsTrue(v) ==
    CASE v.py = "NoneType" -> FALSE
      [] v.py = "int" -> v.s # 0
      [] v.py = "MultiValue" -> Len(v.s) > 0
      [] OTHER -> v.s # ""

\* One entry of _extract_by_attributes: getattr(self.dicom, attr, ''), then
\* `str(value) if value else ''`.
get_attribute(d, attr) ==
    LET value == IF tag_for_keyword(attr) \in DOMAIN d.elems
                 THEN d.elems[tag_for_keyword(attr)] ELSE Py("str", "")
    IN IF ValueIsTrue(value) THEN Str(value) ELSE Py("str", "")

\* One entry of _extract_file_meta.
get_file_meta(d, attr) ==
    LET value == IF attr \in DOMAIN d.file_meta THEN d.file_meta[attr] ELSE Py("str", "")
    IN IF ValueIsTrue(value) THEN Str(value) ELSE Py("str", "")

\* _extract_by_tags, restricted to the entries extract_dicom_metadata reads.
extract_by_tags(d) ==
    [patient_info |-> [PatientID |-> get_dicom_tag(d, "00100020"),
                       IssuerOfPatientID |-> get_dicom_tag(d, "00100021")],
     study_info |-> [StudyInstanceUID |-> get_dicom_tag(d, "0020000D"),
                     StudyDescription |-> get_dicom_tag(d, "00081030")],
     series_info |-> [SeriesInstanceUID |-> get_dicom_tag(d, "0020000E"),
                      Modality |-> get_dicom_tag(d, "00080060"),
                      SeriesDescription |-> get_dicom_tag(d, "0008103E")],
     image_info |-> [SOPInstanceUID |-> get_dicom_tag(d, "00080018"),
                     SOPClassUID |-> get_dicom_tag(d, "00080016")],
     transfer_syntax |-> [TransferSyntaxUID |-> get_dicom_tag(d, "00020010")],
     geometry |-> [PixelSpacing |-> get_dicom_tag(d, "00280030")]]

\* _extract_by_attributes, restricted likewise.
extract_by_attributes(d) ==
    [study_info |-> [StudyInstanceUID |-> get_attribute(d, "StudyInstanceUID"),
                     StudyDescription |-> get_attribute(d, "StudyDescription")],
     series_info |-> [SeriesInstanceUID |-> get_attribute(d, "SeriesInstanceUID"),
                      Modality |-> get_attribute(d, "Modality"),
                      SeriesDescription |-> get_attribute(d, "SeriesDescription")],
     instance_info |-> [SOPInstanceUID |-> get_attribute(d, "SOPInstanceUID")],
     geometry |-> [NumberOfFrames |-> get_attribute(d, "NumberOfFrames")]]

extract_file_meta(d) ==
    [TransferSyntaxUID |-> get_file_meta(d, "TransferSyntaxUID"),
     MediaStorageSOPClassUID |-> get_file_meta(d, "MediaStorageSOPClassUID")]


\* round(x, 0) to the nearest integer of n/d, halves to even (Python's round).
RoundDiv(n, d) ==
    LET q == n \div d
        r == n % d
    IN IF 2 * r > d \/ (2 * r = d /\ q % 2 = 1) THEN q + 1 ELSE q

\* extract_pixel_info_from_physical: the first region's physical deltas, each
\* times 10 and rounded to 5 decimals.  A delta is held in units of 1e-7, the
\* result in units of 1e-5.
extract_pixel_info_from_physical(d) ==
    IF "00186011" \in DOMAIN d.elems /\ Len(d.elems["00186011"].s) > 0
    THEN LET item == d.elems["00186011"].s[1] IN
         [present |-> TRUE,
          physical_delta_x |-> Py("float", RoundDiv(item.PhysicalDeltaX * 10, 100)),
          physical_delta_y |-> Py("float", RoundDiv(item.PhysicalDeltaY * 10, 100))]
    ELSE [present |-> FALSE, physical_delta_x |-> PyNone, physical_delta_y |-> PyNone]

\* extract_ultrasound_region
extract_ultrasound_region(d) ==
    IF "00186011" \in DOMAIN d.elems /\ Len(d.elems["00186011"].s) > 0
    THEN Py("int", d.elems["00186011"].s[1].RegionDataType)
    ELSE PyNone

\* self.dicom.get(keyword, default) as an int
GetInt(d, kw, default) ==
    IF tag_for_keyword(kw) \in DOMAIN d.elems THEN d.elems[tag_for_keyword(kw)].s
    ELSE default

\* extract_frames_by_pixelData_length; a ZeroDivisionError (fewer than 8 bits
\* allocated) is swallowed into None.
extract_frames_by_pixelData_length(d) ==
    IF "00280008" \in DOMAIN d.elems THEN Py("int", d.elems["00280008"].s)
    ELSE IF "7FE00010" \in DOMAIN d.elems
    THEN LET rows == GetInt(d, "Rows", 0)
             columns == GetInt(d, "Columns", 0)
             bits_allocated == GetInt(d, "BitsAllocated", 16)
             frame_size == rows * columns * (bits_allocated \div 8)
         IN IF rows > 0 /\ columns > 0 /\ bits_allocated > 0
            THEN IF frame_size = 0 THEN PyNone
                 ELSE LET num_frames == d.elems["7FE00010"].s \div frame_size
                      IN Py("int", IF num_frames > 0 THEN num_frames ELSE 1)
            ELSE Py("int", 1)
    ELSE Py("int", 1)

\* extract_sr_referenced_instances: the (series, instance) pairs under
\* 0040A375 when the modality is SR, otherwise None.
extract_sr_referenced_instances(d) ==
    IF get_dicom_tag(d, "00080060") = Py("str", "SR") /\ "0040A375" \in DOMAIN d.elems
       /\ Len(d.elems["0040A375"].s) > 0
    THEN Py("list", d.elems["0040A375"].s)
    ELSE PyNone

\* extract_full_metadata
extract_full_metadata(d) ==
    [tag_extraction |-> extract_by_tags(d),
     attribute_extraction |-> extract_by_attributes(d),
     file_metadata |-> extract_file_meta(d),
     pixel_info |-> extract_pixel_info_from_physical(d),
     frames |-> extract_frames_by_pixelData_length(d),
     ultrasound_region |-> extract_ultrasound_region(d)]


\* get_value(primary_path, fallback_path): both arguments are evaluated by the
\* caller, and `return primary_path` cannot raise, so the except branches
\* never run.
get_value(primary_path, fallback_path) == primary_path

critical_fields == <<"study_instance_uid", "series_instance_uid", "instance_uid",
                     "modality", "transfer_syntax">>

\* The metadata dict of extract_dicom_metadata (lines 573-640).
metadata_dict(d, ex) ==
    LET frames == extract_frames_by_pixelData_length(d)
        modality == get_value(ex.tag_extraction.series_info.Modality,
                              ex.attribute_extraction.series_info.Modality)
        from_pixel_info ==
            IF ex.pixel_info.present
            THEN Py("list", <<ex.pixel_info.physical_delta_x, ex.pixel_info.physical_delta_y>>)
            ELSE PyNone
        pixel_spacing ==
            IF from_pixel_info # PyNone THEN from_pixel_info
            ELSE Py("list", SplitSemi(ex.tag_extraction.geometry.PixelSpacing.s))
    IN [study_instance_uid |-> get_value(ex.tag_extraction.study_info.StudyInstanceUID,
                                         ex.attribute_extraction.study_info.StudyInstanceUID),
        series_instance_uid |-> get_value(ex.tag_extraction.series_info.SeriesInstanceUID,
                                          ex.attribute_extraction.series_info.SeriesInstanceUID),
        instance_uid |-> get_value(ex.tag_extraction.image_info.SOPInstanceUID,
                                   ex.attribute_extraction.instance_info.SOPInstanceUID),
        description |-> get_value(ex.tag_extraction.study_info.StudyDescription,
                                  ex.attribute_extraction.series_info.SeriesDescription),
        frames |-> get_value(frames, ex.attribute_extraction.geometry.NumberOfFrames),
        modality |-> get_value(ex.tag_extraction.series_info.Modality,
                               ex.attribute_extraction.series_info.Modality),
        pixel_spacing |-> pixel_spacing,
        ultrasound_region |-> ex.ultrasound_region,
        transfer_syntax |-> get_value(ex.file_metadata.TransferSyntaxUID,
                                      ex.tag_extraction.transfer_syntax.TransferSyntaxUID),
        sop_class_uid |-> get_value(ex.tag_extraction.image_info.SOPClassUID,
                                    ex.file_metadata.MediaStorageSOPClassUID),
        sr_referenced_instances |->
            IF modality = Py("str", "SR") THEN extract_sr_referenced_instances(d) ELSE PyNone,
        issuer_of_patient_id |-> get_value(ex.tag_extraction.patient_info.IssuerOfPatientID,
                                           Py("str", "DCM4CHEE")),
        patient_id |-> get_value(ex.tag_extraction.patient_info.PatientID, Py("str", "1"))]

\* extract_dicom_metadata(extractor): the metadata, or ValueError naming the
\* critical fields that are None.
extract_dicom_metadata(d, ex) ==
    LET md == metadata_dict(d, ex)
        missing_fields == SelectSeq(critical_fields, LAMBDA field : md[field] = PyNone)
    IN IF missing_fields # <<>>
       THEN [raised |-> "ValueError", missing_fields |-> missing_fields, value |-> <<>>]
       ELSE [raised |-> "", missing_fields |-> <<>>, value |-> md]

-----------------------------------------------------------------------------
(* SpecMeta: one record through extract_full_metadata and extract_dicom_metadata *)

\* An element or attribute the record does not hold.
Absent == Py("absent", "")
\* The one-entry dict key -> value, empty when the value is absent.
Opt(key, value) == IF value = Absent THEN <<>> ELSE (key :> value)

\* The first item of the ultrasound region sequence 00186011.
Region == Py("Sequence", <<[PhysicalDeltaX |-> 304567, PhysicalDeltaY |-> 305000,
                            RegionDataType |-> 1]>>)

\* The records read from a file: each identifying or descriptive element
\* present or not; group 0002 lives in file_meta, never among the elements.
MetaRecords ==
    {Record(Opt("0020000D", study) @@ Opt("0020000E", series) @@ Opt("00080018", sop)
            @@ Opt("00080060", modality) @@ Opt("00081030", studyDesc)
            @@ Opt("0008103E", seriesDesc) @@ Opt("00100020", patient)
            @@ Opt("00100021", issuer) @@ Opt("00280030", spacing)
            @@ Opt("00186011", region),
            Opt("TransferSyntaxUID", ts)) :
        study \in {Absent, Py("UID", "1.2.1")},
        series \in {Absent, Py("UID", "1.2.1.1")},
        sop \in {Absent, Py("UID", "1.2.1.1.1")},
        modality \in {Absent, Py("str", "US"), Py("str", "SR")},
        studyDesc \in {Absent, Py("str", "Head")},
        seriesDesc \in {Absent, Py("str", "Axial")},
        patient \in {Absent, Py("str", "P7")},
        issuer \in {Absent, Py("str", "HOSP")},
        spacing \in {Absent, Py("MultiValue", <<"0.3", "0.4">>)},
        region \in {Absent, Region},
        ts \in {Absent, Py("UID", "1.2.840.10008.1.2.1")}}

\* The records whose frame count is extracted: NumberOfFrames, PixelData (its
\* length), Rows, Columns and BitsAllocated, each present or not.
\* (-1 stands for an element the record does not hold.)
OptInt(key, t, n) == IF n = -1 THEN <<>> ELSE (key :> Py(t, n))
FrameRecords ==
    {Record(OptInt("00280008", "int", frames) @@ OptInt("7FE00010", "bytes", pixels)
            @@ OptInt("00280010", "int", rows) @@ OptInt("00280011", "int", columns)
            @@ OptInt("00280100", "int", bits), <<>>) :
        frames \in {-1, 1, 5},
        pixels \in {-1, 0, 24, 1572864},
        rows \in {-1, 0, 2, 512},
        columns \in {-1, 2, 512},
        bits \in {-1, 1, 8, 12, 16}}

NoMetadata == [raised |-> "", missing_fields |-> <<>>, value |-> <<>>]

MetaIdle ==
    /\ mpc = "idle"
    /\ dicom = Record(<<>>, <<>>)
    /\ extractor = <<>>
    /\ metadata = NoMetadata

MetaInit ==
    /\ mpc = "read"
    /\ dicom \in MetaRecords
    /\ extractor = <<>>
    /\ metadata = NoMetadata

\* extractor = dicomHandle.extract_full_metadata()
ExtractFull ==
    /\ OnlyMeta
    /\ mpc = "read"
    /\ mpc' = "extracted"
    /\ extractor' = extract_full_metadata(dicom)
    /\ UNCHANGED <<dicom, metadata>>

\* processed_metadata = dicomHandle.extract_dicom_metadata(extractor)
ExtractDicomMetadata ==
    /\ OnlyMeta
    /\ mpc = "extracted"
    /\ mpc' = "done"
    /\ metadata' = extract_dicom_metadata(dicom, extractor)
    /\ UNCHANGED <<dicom, extractor>>


-----------------------------------------------------------------------------
(* Spec: one operation of DicomNetworkInterfaceImp *)

StudyUIDs == {"1.2.1", "1.2.2"}

ZeroCtr == [completed |-> FALSE, total_instances |-> 0, remaining |-> 0,
            failed |-> 0, warning |-> 0]
NoFindResult == [returned |-> FALSE, result |-> NoResult, data |-> <<>>]

NetIdle ==
    /\ op = "none"
    /\ pc = "idle"
    /\ assocs = <<>>
    /\ stream = <<>>
    /\ results = <<>>
    /\ received_datasets = <<>>
    /\ ctr = ZeroCtr
    /\ find_result = NoFindResult
    /\ study_instance_uid = ""
    /\ raised = NotRaised
    /\ result = NoResult
    /\ data = <<>>

\* The operation returns `res` with data `d` to its caller.
Return(res, d) ==
    /\ pc' = "done"
    /\ result' = res
    /\ data' = d

\* What the transport does with the request in flight: it answers with a
\* status, or the call raises while the association is or is not established
\* any more.
Answer(status) == [raise |-> FALSE, status |-> status, e |-> "", established |-> status.valid]
Raise(e, established) == [raise |-> TRUE, status |-> NoStatus, e |-> e, established |-> established]
Raises(excs) == {Raise(e, b) : e \in excs, b \in BOOLEAN}

\* The association when the exception reaches the handler.
AtRaise(a, out) == [a EXCEPT !.is_established = @ /\ out.established]
\* The association after a response with an empty status: the transport has
\* aborted or lost the connection.
AfterStatus(a, status) == [a EXCEPT !.is_established = @ /\ status.valid]

except_abort_Forgotten(a) == a
except_abort_Always(a) == abort(a)

\* `if assoc.is_established: assoc.abort()` of the in-flight except handlers.
except_abort(a) == IF a.is_established THEN abort(a) ELSE a

-----------------------------------------------------------------------------
(* upload_file and upload_file_dataset: C-STORE *)

StoreStatuses == {NoStatus, St(0, <<>>), St(42752, <<>>), St(45056, <<>>)}
StoreOutcomes == {Answer(st) : st \in StoreStatuses} \cup Raises(Exceptions)

\* Lines 96-129 and 148-181: associate, send_c_store, and the result.
c_store(name, readable, accepted, out) ==
    /\ pc = "idle"
    /\ op' = name
    /\ UNCHANGED <<stream, results, received_datasets, ctr, find_result, study_instance_uid>>
    /\ IF ~readable
       THEN /\ assocs' = <<>>
            /\ raised' = NotRaised
            /\ Return(DicomResult(FALSE, "Failed to process DICOM file: ", "unreadable", 400), <<>>)
       ELSE LET a == associate("store", accepted, "C-STORE") IN
            IF ~accepted
            THEN /\ assocs' = <<a>>
                 /\ raised' = NotRaised
                 /\ Return(DicomResult(FALSE, "Failed to establish association", "", 500), <<>>)
            ELSE IF out.raise
            THEN /\ assocs' = <<except_abort(AtRaise(send(a), out))>>
                 /\ raised' = [e |-> out.e, established |-> out.established]
                 /\ Return(DicomResult(FALSE, "Error during C-STORE: ", out.e, 500), <<>>)
            ELSE /\ raised' = NotRaised
                 /\ IF out.status.valid /\ out.status.Status = 0
                    THEN /\ assocs' = <<release(send(a))>>
                         /\ Return(DicomResult(TRUE, "DICOM file uploaded successfully", "", 200), <<>>)
                    ELSE /\ assocs' = <<abort(AfterStatus(send(a), out.status))>>
                         /\ Return(DicomResult(FALSE, "Failed to store DICOM file. Status: ", "", 500), <<>>)

upload_file(readable, accepted, out) ==
    /\ OnlyNet
    /\ c_store("upload_file", readable, accepted, out)
upload_file_dataset(readable, accepted, out) ==
    /\ OnlyNet
    /\ c_store("upload_file_dataset", readable, accepted, out)

-----------------------------------------------------------------------------
(* find_studies: C-FIND *)

FindStatuses == {0, 65280, 65281, 65024, 42752, 45056}
\* The responses of a C-FIND stream: pending ones carry an identifier, the
\* others none; an empty status stands for a timeout or an abort.
FindResponses ==
    {[status |-> St(65280, <<>>), identifier |-> id] : id \in {IdA, IdB, IdEmpty}}
    \cup {[status |-> St(65281, <<>>), identifier |-> IdA]}
    \cup {[status |-> St(code, <<>>), identifier |-> NoIdentifier] :
            code \in {0, 65024, 42752, 45056}}
    \cup {[status |-> NoStatus, identifier |-> NoIdentifier]}

\* result_dict of one identifier (lines 236-247).
find_result_dict(identifier) ==
    [k \in {e.keyword : e \in Range(identifier.elems)} \ {""} |->
        LET elem == CHOOSE e \in Range(identifier.elems) : e.keyword = k IN
        IF elem.VR \in {"PN", "DA", "TM"} THEN Str(elem.value) ELSE elem.value]

find_loop_body_AnyIdentifier(res, status, identifier) ==
    IF status.valid /\ status.Status = 65280 /\ ~identifier.none
    THEN Append(res, find_result_dict(identifier)) ELSE res

\* The body of `for status, identifier in responses` (lines 228-254): the new
\* value of `results`.
find_loop_body(res, status, identifier) ==
    IF status.valid
    THEN IF status.Status = 65280
         THEN IF Truthy(identifier) THEN Append(res, find_result_dict(identifier)) ELSE res
         ELSE res
    ELSE res

\* find_studies returns to its caller: the HTTP layer, or find_and_get_study.
FindReturn(caller, res, d) ==
    IF caller = "find_studies"
    THEN Return(res, d) /\ UNCHANGED find_result
    ELSE /\ pc' = "find_returned"
         /\ find_result' = [returned |-> TRUE, result |-> res, data |-> d]
         /\ UNCHANGED <<result, data>>

\* find_studies up to the first response (lines 192-225).
find_begin(caller, qp, accepted) ==
    /\ pc = "idle"
    /\ op' = caller
    /\ LET a == associate("find", accepted, QueryTemplate(qp)) IN
       IF accepted
       THEN /\ assocs' = <<send(a)>>
            /\ pc' = "find_drain"
            /\ UNCHANGED <<find_result, result, data>>
       ELSE /\ assocs' = <<a>>
            /\ FindReturn(caller, DicomResult(FALSE, "Failed to establish association for C-FIND",
                                              "", 500), <<>>)
    /\ UNCHANGED <<stream, results, received_datasets, ctr, raised>>

\* The query the HTTP layer passes for ?PatientID=X1.
NetQuery == HttpQueryParams([p \in HttpParams |->
                IF p = "PatientID" THEN Py("str", "X1") ELSE PyNone])

find_studies(accepted) ==
    /\ OnlyNet
    /\ find_begin("find_studies", NetQuery, accepted)
    /\ UNCHANGED study_instance_uid

\* One iteration of the response loop.
find_response(r) ==
    /\ OnlyNet
    /\ pc = "find_drain"
    /\ Len(stream) < MaxStream
    /\ stream' = Append(stream, r)
    /\ results' = find_loop_body(results, r.status, r.identifier)
    /\ assocs' = SetCur(AfterStatus(Cur, r.status))
    /\ UNCHANGED <<op, pc, received_datasets, ctr, find_result, study_instance_uid,
                   raised, result, data>>

\* The stream is exhausted: release and return (lines 255-261).
find_end ==
    /\ OnlyNet
    /\ pc = "find_drain"
    /\ assocs' = SetCur(release([Cur EXCEPT !.drained = TRUE]))
    /\ FindReturn(op, DicomResult(TRUE, "C-FIND completed successfully", "", 200), results)
    /\ UNCHANGED <<op, stream, results, received_datasets, ctr, study_instance_uid, raised>>

\* send_c_find or the loop raises (lines 262-270).
find_except(out) ==
    /\ OnlyNet
    /\ pc = "find_drain"
    /\ assocs' = SetCur(except_abort(AtRaise(Cur, out)))
    /\ raised' = [e |-> out.e, established |-> Cur.is_established /\ out.established]
    /\ FindReturn(op, DicomResult(FALSE, "Error during C-FIND: ", out.e, 500), <<>>)
    /\ UNCHANGED <<op, stream, results, received_datasets, ctr, study_instance_uid>>


-----------------------------------------------------------------------------
(* get_study: C-GET at the PATIENT level *)

\* The statuses of a C-GET or C-MOVE stream: pending ones with their
\* sub-operation counters, final ones with the final counters or bare.
GetStatuses ==
    {NoStatus, St(0, <<>>), St(65280, Counts(1, 1, 0, 0)), St(65280, Counts(1, 0, 1, 1)),
     St(42754, FinalCounts(0, 2, 0)), St(65024, <<>>), St(45056, FinalCounts(1, 1, 1))}

\* The dataset get_study sends (lines 306-308): the argument is not used.
get_study_request(uid) ==
    [QueryRetrieveLevel |-> Py("str", "PATIENT"), PatientID |-> Py("str", "2178309")]

\* get_study up to the first response: _get_supported_sop_classes opens and
\* releases an association of its own and raises when it is rejected; nothing
\* in get_study catches that.
get_study(uid, probe_accepted, accepted) ==
    /\ OnlyNet
    /\ pc = "idle"
    /\ op' = "get_study"
    /\ study_instance_uid' = uid
    /\ UNCHANGED <<stream, results, received_datasets, ctr, find_result>>
    /\ LET probe == associate("probe", probe_accepted, "none")
           a == associate("get", accepted, get_study_request(uid))
       IN IF ~probe_accepted
          THEN /\ assocs' = <<probe>>
               /\ pc' = "raised"
               /\ raised' = [e |-> "Failed to establish association to check supported SOP classes",
                             established |-> FALSE]
               /\ UNCHANGED <<result, data>>
          ELSE IF accepted
          THEN /\ assocs' = <<release(probe), send(a)>>
               /\ pc' = "get_study_drain"
               /\ UNCHANGED <<raised, result, data>>
          ELSE /\ assocs' = <<release(probe), a>>
               /\ raised' = NotRaised
               /\ Return(DicomResult(FALSE, "Failed to establish association for C-GET", "", 500),
                         <<>>)

\* One iteration of its response loop: the status is printed.
get_study_response(status) ==
    /\ OnlyNet
    /\ pc = "get_study_drain"
    /\ Len(stream) < MaxStream
    /\ stream' = Append(stream, [status |-> status, identifier |-> NoIdentifier])
    /\ assocs' = SetCur(AfterStatus(Cur, status))
    /\ UNCHANGED <<op, pc, results, received_datasets, ctr, find_result,
                   study_instance_uid, raised, result, data>>

\* The stream is exhausted: `finally: assoc.release()`, then the success result.
get_study_end ==
    /\ OnlyNet
    /\ pc = "get_study_drain"
    /\ assocs' = SetCur(release([Cur EXCEPT !.drained = TRUE]))
    /\ Return(DicomResult(TRUE, "DICOM data retrieved successfully", "", 200), <<>>)
    /\ UNCHANGED <<op, stream, results, received_datasets, ctr, find_result,
                   study_instance_uid, raised>>

\* send_c_get or the loop raises: the except clause builds the failure result
\* and `finally: assoc.release()` runs before it is returned.
get_study_except(out) ==
    /\ OnlyNet
    /\ pc = "get_study_drain"
    /\ assocs' = SetCur(release(AtRaise(Cur, out)))
    /\ raised' = [e |-> out.e, established |-> Cur.is_established /\ out.established]
    /\ Return(DicomResult(FALSE, "Error during C-GET: ", out.e, 500), <<>>)
    /\ UNCHANGED <<op, stream, results, received_datasets, ctr, find_result,
                   study_instance_uid>>

-----------------------------------------------------------------------------
(* move_study: C-MOVE *)

\* send_c_move or next() raises, or next() hands over the first response of
\* the stream.
MoveOutcomes == {Answer(st) : st \in GetStatuses} \cup Raises(Exceptions)

\* `status = next(status); status.Status` (lines 380-382): send_c_move returns
\* a generator of (status, identifier) tuples, so the first response read is a
\* tuple and `.Status` raises AttributeError.
move_first_response(out) ==
    IF out.raise THEN out
    ELSE [out EXCEPT !.raise = TRUE, !.e = "'tuple' object has no attribute 'Status'"]

\* Lines 364-409.
move_study(uid, accepted, out) ==
    /\ OnlyNet
    /\ pc = "idle"
    /\ op' = "move_study"
    /\ study_instance_uid' = uid
    /\ UNCHANGED <<results, received_datasets, ctr, find_result>>
    /\ LET a == associate("move", accepted,
                          [QueryRetrieveLevel |-> Py("str", "STUDY"),
                           StudyInstanceUID |-> Py("str", uid)])
           first == move_first_response(out)
       IN IF accepted
          THEN /\ stream' = IF out.raise THEN <<>>
                            ELSE <<[status |-> out.status, identifier |-> NoIdentifier]>>
               /\ IF first.raise
                  THEN /\ assocs' = <<except_abort(AtRaise(send(a), first))>>
                       /\ raised' = [e |-> first.e, established |-> first.established]
                       /\ Return(DicomResult(FALSE, "Error during C-MOVE: ", first.e, 500), <<>>)
                  ELSE /\ raised' = NotRaised
                       /\ IF first.status.Status = 0
                          THEN /\ assocs' = <<release(send(a))>>
                               /\ Return(DicomResult(TRUE, "C-MOVE to {destination_ae} completed successfully",
                                                     "", 200), <<>>)
                          ELSE /\ assocs' = <<abort(AfterStatus(send(a), first.status))>>
                               /\ Return(DicomResult(FALSE, "C-MOVE failed with status: ", "", 500),
                                         <<>>)
          ELSE /\ stream' = <<>>
               /\ assocs' = <<a>>
               /\ raised' = NotRaised
               /\ Return(DicomResult(FALSE, "Failed to establish association for C-MOVE", "", 500),
                         <<>>)


-----------------------------------------------------------------------------
(* The retrieval aggregation shared by get_study_with_pixels and           *)
(* find_and_get_study (the two functions repeat the same code)             *)

Map(f(_), q) == [i \in DOMAIN q |-> f(q[i])]

HasAttr(dataset, kw) == \E e \in Range(dataset) : e.keyword = kw
Attr(dataset, kw) == (CHOOSE e \in Range(dataset) : e.keyword = kw).value
\* getattr(dataset, kw, '')
GetAttr(dataset, kw) == IF HasAttr(dataset, kw) THEN Attr(dataset, kw) ELSE Py("str", "")

\* The datasets the peer stores back during a C-GET.
DsA == <<Elem("SOPInstanceUID", "UI", Py("UID", "1.2.1.1.1")),
         Elem("SeriesInstanceUID", "UI", Py("UID", "1.2.1.1")),
         Elem("StudyInstanceUID", "UI", Py("UID", "1.2.1")),
         Elem("Modality", "CS", Py("str", "CT")),
         Elem("SeriesNumber", "IS", Py("int", 2)),
         Elem("SeriesDescription", "LO", Py("str", "Axial")),
         Elem("Rows", "US", Py("int", 2)),
         Elem("Columns", "US", Py("int", 2)),
         Elem("PixelData", "OW", Py("bytes", 8))>>
DsB == <<Elem("SOPInstanceUID", "UI", Py("UID", "1.2.1.2.1")),
         Elem("SeriesInstanceUID", "UI", Py("UID", "1.2.1.2")),
         Elem("Modality", "CS", Py("str", "MR")),
         Elem("SeriesNumber", "IS", Py("int", 1)),
         Elem("", "UN", Py("bytes", 3)),
         Elem("EncapsulatedDocument", "OB", Py("bytes", 4))>>
Datasets == {DsA, DsB}

\* A str built by an f-string: its fixed text and the values formatted in.
Fmt(text, args) == [py |-> "str", s |-> text, args |-> args]

\* The value stored for one element (lines 543-565); len() of a value that
\* has no length raises, and the except clause stores the error marker.
convert_elem(elem) ==
    CASE elem.VR \in {"PN", "DA", "TM", "DT", "LO", "SH"} -> Str(elem.value)
      [] elem.VR = "SQ" -> Py("str", "Sequence data available")
      [] elem.VR \in {"OB", "OW", "OF", "OD", "UN"} ->
            IF elem.value.py = "bytes"
            THEN Fmt("{VR} data ({len} bytes)", <<elem.VR, elem.value.s>>)
            ELSE Fmt("{VR} data (conversion error)", <<elem.VR>>)
      [] OTHER ->
            IF elem.value.py = "function" THEN Fmt("Function: {keyword}", <<elem.keyword>>)
            ELSE IF elem.value.py = "object" THEN Fmt("Object: {keyword}", <<elem.keyword>>)
            ELSE Str(elem.value)

\* The three identifiers copied first (lines 533-538).
instance_ids(dataset) ==
    [k \in {kw \in {"SOPInstanceUID", "SeriesInstanceUID", "StudyInstanceUID"} :
                HasAttr(dataset, kw)} |-> Str(Attr(dataset, k))]

\* The elements copied by the loop over the dataset (lines 541-566).
instance_elems(dataset) ==
    [k \in {e.keyword : e \in Range(dataset)} \ {"", "PixelData"} |->
        convert_elem(CHOOSE e \in Range(dataset) : e.keyword = k)]

\* The pixel block (lines 569-584).
instance_pixels(dataset) ==
    IF HasAttr(dataset, "PixelData")
    THEN ("HasPixelData" :> Py("bool", TRUE))
         @@ ("PixelDataLength" :> Py("int", Attr(dataset, "PixelData").s))
         @@ (IF HasAttr(dataset, "Rows") /\ HasAttr(dataset, "Columns")
             THEN "ImageDimensions" :> Fmt("{Rows}x{Columns}",
                                           <<Attr(dataset, "Rows").s, Attr(dataset, "Columns").s>>)
             ELSE <<>>)
         @@ (IF HasAttr(dataset, "PixelSpacing")
             THEN "PixelSpacing" :> Py("list", Attr(dataset, "PixelSpacing").s)
             ELSE <<>>)
    ELSE "HasPixelData" :> Py("bool", FALSE)

\* `len(dataset.PixelData)` (lines 571 and 795) stands outside the try of the
\* element loop: a PixelData whose value has no length (None, the value of an
\* empty element) raises TypeError out of the loop over the datasets.
instance_raises(dataset) ==
    HasAttr(dataset, "PixelData") /\ Attr(dataset, "PixelData").py # "bytes"
ProcessingRaises(datasets) == \E i \in DOMAIN datasets : instance_raises(datasets[i])
\* What the in-flight handler then catches: the association is still up.
NoLen == Raise("object of type 'NoneType' has no len()", TRUE)

\* result_dict of one received dataset: later assignments overwrite earlier.
instance_dict(dataset) ==
    instance_pixels(dataset) @@ instance_elems(dataset) @@ instance_ids(dataset)

get_loop_body_PendingCompletes(c, status) ==
    IF status.valid /\ code_to_category(status.Status) \in {"Success", "Pending"}
    THEN [c EXCEPT !.completed = TRUE] ELSE c

\* The body of `for status, identifier in responses` of the C-GET loops
\* (lines 495-524 and 726-749): the new counters.
get_loop_body(c, status) ==
    IF status.valid
    THEN IF status.Status = 0
         THEN [c EXCEPT !.completed = TRUE,
                        !.total_instances =
                            IF hasattr(status, "NumberOfCompletedSuboperations")
                            THEN status.attrs.NumberOfCompletedSuboperations ELSE @]
         ELSE IF code_to_category(status.Status) = "Pending"
         THEN [c EXCEPT !.remaining =
                            IF hasattr(status, "NumberOfRemainingSuboperations")
                            THEN status.attrs.NumberOfRemainingSuboperations ELSE @,
                        !.total_instances =
                            IF hasattr(status, "NumberOfCompletedSuboperations")
                            THEN status.attrs.NumberOfCompletedSuboperations ELSE @,
                        !.failed =
                            IF hasattr(status, "NumberOfFailedSuboperations")
                            THEN status.attrs.NumberOfFailedSuboperations ELSE @,
                        !.warning =
                            IF hasattr(status, "NumberOfWarningSuboperations")
                            THEN status.attrs.NumberOfWarningSuboperations ELSE @]
         ELSE c
    ELSE c

\* The storage contexts and the request of a C-GET at the STUDY level.
CommonContexts == {"CTImageStorage", "MRImageStorage", "UltrasoundImageStorage"}
get_request(uid, storage_contexts) ==
    [QueryRetrieveLevel |-> Py("str", "STUDY"), StudyInstanceUID |-> Py("str", uid),
     storage_contexts |-> storage_contexts]

\* The retrieval association is opened (lines 470-493 and 707-725).
get_begin(uid, storage_contexts, accepted) ==
    LET a == associate("get", accepted, get_request(uid, storage_contexts)) IN
    /\ stream' = <<>>
    /\ received_datasets' = <<>>
    /\ ctr' = ZeroCtr
    /\ raised' = NotRaised
    /\ IF accepted
       THEN /\ assocs' = Append(assocs, send(a))
            /\ pc' = "get_drain"
            /\ UNCHANGED <<result, data>>
       ELSE /\ assocs' = Append(assocs, a)
            /\ Return(DicomResult(FALSE, "Failed to establish association for C-GET", "", 500),
                      <<>>)

\* handle_store(event): the peer stores one dataset back while the C-GET is
\* in flight.
handle_store(dataset) ==
    /\ OnlyNet
    /\ pc = "get_drain"
    /\ Cur.is_established
    /\ Len(received_datasets) < MaxStore
    /\ received_datasets' = Append(received_datasets, dataset)
    /\ UNCHANGED <<op, pc, assocs, stream, results, ctr, find_result, study_instance_uid,
                   raised, result, data>>

\* One iteration of the C-GET response loop.
get_response(status) ==
    /\ OnlyNet
    /\ pc = "get_drain"
    /\ Len(stream) < MaxStream
    /\ stream' = Append(stream, [status |-> status, identifier |-> NoIdentifier])
    /\ ctr' = get_loop_body(ctr, status)
    /\ assocs' = SetCur(AfterStatus(Cur, status))
    /\ UNCHANGED <<op, pc, results, received_datasets, find_result, study_instance_uid,
                   raised, result, data>>

\* send_c_get, the loop or the processing of the datasets raises (lines
\* 610-618 and 836-844).
get_except(out) ==
    /\ OnlyNet
    /\ pc = "get_drain"
    /\ assocs' = SetCur(except_abort(AtRaise(Cur, out)))
    /\ raised' = [e |-> out.e, established |-> Cur.is_established /\ out.established]
    /\ Return(DicomResult(FALSE, "Error during C-GET: ", out.e, 500), <<>>)
    /\ UNCHANGED <<op, stream, results, received_datasets, ctr, find_result,
                   study_instance_uid>>


-----------------------------------------------------------------------------
(* get_study_with_pixels *)

\* Lines 418-493.
get_study_with_pixels(uid, accepted) ==
    /\ OnlyNet
    /\ pc = "idle"
    /\ op' = "get_study_with_pixels"
    /\ study_instance_uid' = uid
    /\ assocs = <<>>
    /\ get_begin(uid, CommonContexts, accepted)
    /\ UNCHANGED <<results, find_result>>

\* The stream is exhausted: the datasets are converted, the association is
\* released and the summary returned (lines 526-608).
get_study_with_pixels_end ==
    /\ OnlyNet
    /\ pc = "get_drain"
    /\ op = "get_study_with_pixels"
    /\ IF ProcessingRaises(received_datasets)
       THEN /\ assocs' = SetCur(except_abort(AtRaise([Cur EXCEPT !.drained = TRUE], NoLen)))
            /\ raised' = [e |-> NoLen.e, established |-> Cur.is_established]
            /\ Return(DicomResult(FALSE, "Error during C-GET: ", NoLen.e, 500), <<>>)
       ELSE /\ assocs' = SetCur(release([Cur EXCEPT !.drained = TRUE]))
            /\ Return(DicomResult(TRUE, "Retrieved {n} DICOM instances for study {uid}", "", 200),
                      [summary |-> [total_instances |-> Len(received_datasets),
                                    study_instance_uid |-> study_instance_uid,
                                    completed |-> ctr.completed,
                                    failed_operations |-> ctr.failed,
                                    warning_operations |-> ctr.warning],
                       instances |-> Map(instance_dict, received_datasets)])
            /\ UNCHANGED raised
    /\ UNCHANGED <<op, stream, results, received_datasets, ctr, find_result,
                   study_instance_uid>>

-----------------------------------------------------------------------------
(* find_and_get_study *)

\* Step 1 (lines 642-654): find_studies is called with the study's query.
find_and_get_study(uid, accepted) ==
    /\ OnlyNet
    /\ find_begin("find_and_get_study", FagQueryParams(uid), accepted)
    /\ study_instance_uid' = uid

\* text.split('\\') and token.strip(), on the texts the model's records hold:
\* pydicom splits a multi-valued element on the backslash itself, so the text
\* of a single-valued one holds none.
split_backslash(text) == <<text>>
strip(text) ==
    CASE text = " CT" -> "CT"
      [] OTHER -> text

\* The modality tokens of the discovery record (lines 662-667).  A textual
\* value is split on the backslash and stripped; pydicom hands a value holding
\* a backslash over as a MultiValue, which is neither a str nor a list.
modalities_of(study_details) ==
    IF "ModalitiesInStudy" \in DOMAIN study_details
    THEN LET v == study_details["ModalitiesInStudy"] IN
         IF v.py = "str" THEN Map(strip, split_backslash(v.s))
         ELSE IF v.py = "list" THEN v.s
         ELSE <<>>
    ELSE <<>>

\* common_contexts (lines 672-676), and the context appended for a modality
\* (lines 677-683).
common_contexts == <<"CTImageStorage", "MRImageStorage", "UltrasoundImageStorage">>
modality_context(modality) ==
    CASE modality = "CT" -> "CTImageStorage"
      [] modality = "MR" -> "MRImageStorage"
      [] modality = "US" -> "UltrasoundImageStorage"

\* list(set(q)): every item of q once; the order is the set's iteration
\* order, which nothing in the code relies on.
RECURSIVE list_of_set(_)
list_of_set(S) ==
    IF S = {} THEN <<>>
    ELSE LET x == CHOOSE y \in S : TRUE IN <<x>> \o list_of_set(S \ {x})

storage_contexts_ModalitiesOnly(modalities) ==
    LET storage_contexts ==
            Map(modality_context, SelectSeq(modalities, LAMBDA m : m \in {"CT", "MR", "US"}))
    IN IF storage_contexts = <<>> THEN common_contexts
       ELSE list_of_set(Range(storage_contexts))

storage_contexts_StackedOnCommon(modalities) ==
    Map(modality_context, SelectSeq(modalities, LAMBDA m : m \in {"CT", "MR", "US"}))
        \o common_contexts

\* storage_contexts (lines 671-687), the list iterated by
\* `for storage_class in storage_contexts: ae.add_requested_context(...)`.
storage_contexts_of(modalities) ==
    LET storage_contexts ==
            Map(modality_context, SelectSeq(modalities, LAMBDA m : m \in {"CT", "MR", "US"}))
    IN IF storage_contexts = <<>> THEN common_contexts
       ELSE list_of_set(Range(storage_contexts \o common_contexts))

find_and_get_study_retrieve_Regardless(accepted) ==
    /\ OnlyNet
    /\ pc = "find_returned"
    /\ UNCHANGED <<op, study_instance_uid, results, find_result>>
    /\ get_begin(study_instance_uid, CommonContexts, accepted)

\* Step 2 (lines 655-725): 404 when discovery found nothing, otherwise the
\* retrieval association is opened with the contexts chosen from the record.
find_and_get_study_retrieve(accepted) ==
    /\ OnlyNet
    /\ pc = "find_returned"
    /\ UNCHANGED <<op, study_instance_uid>>
    /\ IF ~find_result.result.success \/ find_result.data = <<>>
       THEN /\ Return(DicomResult(FALSE, "Study with UID {uid} not found", "", 404), <<>>)
            /\ UNCHANGED <<assocs, stream, results, received_datasets, ctr, find_result, raised>>
       ELSE /\ get_begin(study_instance_uid,
                         Range(storage_contexts_of(modalities_of(find_result.data[1]))),
                         accepted)
            /\ results' = <<find_result.data[1]>>
            /\ find_result' = [find_result EXCEPT !.data = <<>>]

\* Python's truth value and str.isdigit() of a SeriesNumber, and the sort key
\* (line 826).
series_sort_key(x) ==
    LET n == x.SeriesNumber IN
    IF n.py = "int" /\ n.s # 0 /\ n.s >= 0 THEN n.s ELSE 9999

add_to_series_LatestWins(series_data, dataset) ==
    IF ~HasAttr(dataset, "SeriesInstanceUID") THEN series_data
    ELSE LET series_uid == Str(Attr(dataset, "SeriesInstanceUID"))
             others == SelectSeq(series_data, LAMBDA g : g.SeriesInstanceUID # series_uid)
             mine == SelectSeq(series_data, LAMBDA g : g.SeriesInstanceUID = series_uid)
         IN Append(others,
                   [SeriesInstanceUID |-> series_uid,
                    SeriesDescription |-> GetAttr(dataset, "SeriesDescription"),
                    Modality |-> GetAttr(dataset, "Modality"),
                    SeriesNumber |-> GetAttr(dataset, "SeriesNumber"),
                    instances |-> (IF mine = <<>> THEN <<>> ELSE mine[1].instances)
                                  \o <<instance_dict(dataset)>>])

\* series_data after one more dataset (lines 756-765 and 800-803): the
\* series, in the order first seen.
add_to_series(series_data, dataset) ==
    IF ~HasAttr(dataset, "SeriesInstanceUID") THEN series_data
    ELSE LET series_uid == Str(Attr(dataset, "SeriesInstanceUID"))
             seen == \E i \in DOMAIN series_data : series_data[i].SeriesInstanceUID = series_uid
             with == IF seen THEN series_data
                     ELSE Append(series_data,
                                 [SeriesInstanceUID |-> series_uid,
                                  SeriesDescription |-> GetAttr(dataset, "SeriesDescription"),
                                  Modality |-> GetAttr(dataset, "Modality"),
                                  SeriesNumber |-> GetAttr(dataset, "SeriesNumber"),
                                  instances |-> <<>>])
         IN [i \in DOMAIN with |->
                IF with[i].SeriesInstanceUID = series_uid
                THEN [with[i] EXCEPT !.instances = Append(@, instance_dict(dataset))]
                ELSE with[i]]

RECURSIVE group_series(_, _)
group_series(series_data, datasets) ==
    IF datasets = <<>> THEN series_data
    ELSE group_series(add_to_series(series_data, Head(datasets)), Tail(datasets))

\* list.sort(key=...): stable, ascending.
RECURSIVE sort_series(_)
sort_series(q) ==
    IF q = <<>> THEN <<>>
    ELSE LET rest == sort_series(Tail(q))
             x == Head(q)
             before == SelectSeq(rest, LAMBDA y : series_sort_key(y) < series_sort_key(x))
             after == SelectSeq(rest, LAMBDA y : series_sort_key(y) >= series_sort_key(x))
         IN before \o <<x>> \o after

\* series_list (lines 815-826).
series_list_of(datasets) ==
    sort_series(Map(LAMBDA g : [SeriesInstanceUID |-> g.SeriesInstanceUID,
                                SeriesDescription |-> g.SeriesDescription,
                                Modality |-> g.Modality,
                                SeriesNumber |-> g.SeriesNumber,
                                InstanceCount |-> Len(g.instances),
                                instances |-> g.instances],
                    group_series(<<>>, datasets)))

\* summary (lines 805-814).
summary_of(datasets, uid, study_details, c) ==
    [total_instances |-> Len(datasets),
     total_series |-> Len(group_series(<<>>, datasets)),
     study_instance_uid |-> uid,
     study_details |-> study_details,
     completed |-> c.completed,
     failed_operations |-> c.failed,
     warning_operations |-> c.warning]

\* The stream is exhausted: the datasets are grouped, the association is
\* released and the summary returned (lines 750-835).
find_and_get_study_end ==
    /\ OnlyNet
    /\ pc = "get_drain"
    /\ op = "find_and_get_study"
    /\ IF ProcessingRaises(received_datasets)
       THEN /\ assocs' = SetCur(except_abort(AtRaise([Cur EXCEPT !.drained = TRUE], NoLen)))
            /\ raised' = [e |-> NoLen.e, established |-> Cur.is_established]
            /\ Return(DicomResult(FALSE, "Error during C-GET: ", NoLen.e, 500), <<>>)
       ELSE /\ assocs' = SetCur(release([Cur EXCEPT !.drained = TRUE]))
            /\ Return(DicomResult(TRUE, "Retrieved {n} DICOM instances for study {uid}", "", 200),
                      [summary |-> summary_of(received_datasets, study_instance_uid, results[1],
                                              ctr),
                       series |-> series_list_of(received_datasets)])
            /\ UNCHANGED raised
    /\ UNCHANGED <<op, stream, results, received_datasets, ctr, find_result,
                   study_instance_uid>>

-----------------------------------------------------------------------------
(* The aggregation of find_and_get_study on its own: the contexts chosen    *)
(* from the discovery record, and the series list built from what arrived  *)

\* The discovery records find_studies hands over: ModalitiesInStudy absent,
\* empty, single-valued (recognized or not, padded or not) or multi-valued.
ModalityValues ==
    {Py("str", ""), Py("str", "CT"), Py("str", "MR"), Py("str", "US"), Py("str", "XA"),
     Py("str", " CT")}
DiscoveryRecords ==
    {find_result_dict(Identifier(<<Elem("PatientName", "PN", Py("PersonName", "DOE^A"))>>)),
     find_result_dict(IdB)}
    \cup {find_result_dict(Identifier(<<Elem("ModalitiesInStudy", "CS", v)>>)) :
                v \in ModalityValues}

\* A dataset stored back by the peer: its instance and series identifiers and
\* the descriptive elements of its series, each present or not.
Instance(sop, series, number, description, modality) ==
    <<Elem("SOPInstanceUID", "UI", Py("UID", sop))>>
    \o (IF series = "" THEN <<>> ELSE <<Elem("SeriesInstanceUID", "UI", Py("UID", series))>>)
    \o (IF number = -1 THEN <<>> ELSE <<Elem("SeriesNumber", "IS", Py("int", number))>>)
    \o (IF description = "" THEN <<>>
        ELSE <<Elem("SeriesDescription", "LO", Py("str", description))>>)
    \o (IF modality = "" THEN <<>> ELSE <<Elem("Modality", "CS", Py("str", modality))>>)

AggDatasets ==
    {Instance("1.1", "S1", 2, "Axial", "CT"),
     Instance("1.2", "S1", 1, "Sag", "MR"),
     Instance("2.1", "S2", 1, "", "MR"),
     Instance("2.2", "S2", -1, "Cor", ""),
     Instance("3.1", "S3", 0, "Scout", "CT"),
     Instance("3.2", "S3", 10000, "", "CT"),
     Instance("4.1", "S4", -1, "", "SR"),
     Instance("5.1", "", 1, "Loose", "CT")}

\* The most datasets that arrive in one retrieval.
MaxReceived == 3
Arrivals == UNION {[1..n -> AggDatasets] : n \in 0..MaxReceived}

\* Datasets whose fields are hard to convert: one with a callable value, an
\* object value and a binary element whose value has no length; one whose
\* PixelData is empty (its value is None); and two plain ones.
Odd == Instance("6.1", "S2", 1, "", "MR")
       \o <<Elem("WindowCenter", "DS", Py("function", "")),
            Elem("WindowWidth", "DS", Py("object", "")),
            Elem("EncapsulatedDocument", "OB", PyNone)>>
EmptyPixels == Instance("7.1", "S1", 2, "Axial", "CT") \o <<Elem("PixelData", "OW", PyNone)>>
ConvertDatasets == {Odd, EmptyPixels, DsA, Instance("2.1", "S2", 1, "", "MR")}
ConvertArrivals == UNION {[1..n -> ConvertDatasets] : n \in 0..MaxReceived}

AggIdle ==
    /\ fpc = "idle"
    /\ discovered = <<>>
    /\ requested = <<>>
    /\ received = <<>>
    /\ series_list = <<>>
    /\ summary = <<>>

AggInit ==
    /\ fpc = "found"
    /\ discovered \in DiscoveryRecords
    /\ requested = <<>>
    /\ received = <<>>
    /\ series_list = <<>>
    /\ summary = <<>>

\* Lines 661-691: the modalities are read off the discovery record and the
\* storage contexts are added to the application entity.
select_storage_contexts ==
    /\ OnlyAgg
    /\ fpc = "found"
    /\ requested' = storage_contexts_of(modalities_of(discovered))
    /\ fpc' = "retrieving"
    /\ UNCHANGED <<discovered, received, series_list, summary>>

\* Lines 750-826: the datasets that arrived are converted and grouped by
\* series and the series list is sorted; an exception of the conversion ends
\* the operation in its except clause (lines 836-844).
group_and_sort(datasets) ==
    /\ OnlyAgg
    /\ fpc = "retrieving"
    /\ received' = datasets
    /\ IF ProcessingRaises(datasets)
       THEN /\ series_list' = <<>>
            /\ summary' = <<>>
            /\ fpc' = "failed"
       ELSE /\ series_list' = series_list_of(datasets)
            /\ summary' = summary_of(datasets, "1.2.1", discovered, ZeroCtr)
            /\ fpc' = "done"
    /\ UNCHANGED <<discovered, requested>>

-----------------------------------------------------------------------------
(* The tag mutators of the two DicomMetadataHandler classes                *)
(* (services/dicom_meta_data_handler.py and                                *)
(* services/service_utils/dicom_meta_data_handler.py)                      *)

True == Py("bool", "True")
False == Py("bool", "False")

\* What a mutator hands back: the record after it, the value returned, or the
\* exception raised.
Returns(d, ret) == [dicom |-> d, raised |-> "", ret |-> ret]
RaisesOut(d, e) == [dicom |-> d, raised |-> e, ret |-> PyNone]

\* vr_mappings of _determine_vr (keyed by hex string).
vr_mappings ==
    [t \in {"00100010", "00100020", "00100030", "00100040", "00100021", "00101040",
            "00102154", "00100050", "0020000D", "00080020", "00080030", "00080080",
            "00081040"} |->
        CASE t = "00100010" -> "PN"
          [] t \in {"00100030", "00080020"} -> "DA"
          [] t = "00100040" -> "CS"
          [] t = "00102154" -> "SH"
          [] t = "00100050" -> "SQ"
          [] t = "0020000D" -> "UI"
          [] t = "00080030" -> "TM"
          [] OTHER -> "LO"]

\* `isinstance(tag, pydicom.tag.Tag)` of _determine_vr, evaluated on every
\* call: pydicom.tag.Tag is a factory function in pydicom's releases (the
\* class is BaseTag), and isinstance raises TypeError when its second argument
\* is no type; were it a type, the check is false for a str and for a tuple.
determine_vr_raises == isinstance_raises

\* _determine_vr(tag, value) when the check does not raise: the mapping is
\* looked up with the tag as it was passed (str(tag), "(gggg, eeee)", for a
\* pydicom Tag); only a hex string is a key of it, and otherwise the VR is
\* inferred from the value's type.
determine_vr(tag, value) ==
    IF tag.py = "str" /\ tag.s \in DOMAIN vr_mappings THEN vr_mappings[tag.s]
    ELSE CASE value.py = "str" -> "LO"
           [] value.py = "int" -> "IS"
           [] value.py = "float" -> "DS"
           [] value.py = "list" -> "SQ"
           [] OTHER -> "UN"

\* tag = (int(tag[:4], 16), int(tag[4:], 16)) for a hex string.
normalize_tag(tag) == IF tag.py = "str" THEN Py("tuple", tag.s) ELSE tag

\* pydicom: the value of a sequence element must be a sequence of Datasets;
\* the values written here (texts, lists of texts) are not, and the
\* assignment raises TypeError.
SetRaises(elem, value) == elem.VR = "SQ"
AddRaises(vr, value) == vr = "SQ"
SetValue(d, t, value) == [d EXCEPT ![t].value = value]
add_new(d, t, vr, value) ==
    [k \in DOMAIN d \cup {t} |-> IF k = t THEN [VR |-> vr, value |-> value] ELSE d[k]]

\* update_dicom_tag(tag, value, add_if_not_exists=True): the upsert
\* (service_utils lines 179-221; services lines 70-112).
update_dicom_tag_upsert(d, tag, value, add_if_not_exists) ==
    LET t == normalize_tag(tag) IN
    IF t.s \in DOMAIN d
    THEN IF SetRaises(d[t.s], value) THEN Returns(d, False)
         ELSE Returns(SetValue(d, t.s, value), True)
    ELSE IF ~add_if_not_exists THEN Returns(d, False)
    ELSE LET vr == determine_vr(t, value) IN
         IF determine_vr_raises \/ AddRaises(vr, value) THEN Returns(d, False)
         ELSE Returns(add_new(d, t.s, vr, value), True)

\* update_dicom_tag(tag, value) of services lines 648-663: no upsert, and
\* ValueError when the tag is absent or cannot be written.
update_dicom_tag_existing(d, tag, value) ==
    IF tag.s \notin DOMAIN d THEN RaisesOut(d, "ValueError")
    ELSE IF SetRaises(d[tag.s], value) THEN RaisesOut(d, "ValueError")
    ELSE Returns(SetValue(d, tag.s, value), PyNone)

Classes == {"services", "service_utils"}

\* The method the name update_dicom_tag is bound to: the services class
\* defines it twice, and the later definition (line 648) replaces the upsert
\* of line 70.
update_dicom_tag(cls, d, tag, value) ==
    IF cls = "services" THEN update_dicom_tag_existing(d, tag, value)
    ELSE update_dicom_tag_upsert(d, tag, value, TRUE)

\* add_dicom_tag_if_missing(tag, value), the same in both classes.
add_dicom_tag_if_missing(d, tag, value) ==
    LET t == normalize_tag(tag) IN
    IF t.s \notin DOMAIN d
    THEN LET vr == determine_vr(t, value) IN
         IF determine_vr_raises \/ AddRaises(vr, value) THEN RaisesOut(d, "ValueError")
         ELSE Returns(add_new(d, t.s, vr, value), True)
    ELSE Returns(d, False)

\* bulk_update_tags(tag_updates), the same text in both classes: the loop
\* over tag_updates.items(), `successful_tags` so far.
RECURSIVE bulk_update_loop(_, _, _, _)
bulk_update_loop(cls, d, items, successful_tags) ==
    IF items = <<>> THEN Returns(d, Py("list", successful_tags))
    ELSE LET r == update_dicom_tag(cls, d, Head(items).tag, Head(items).value) IN
         IF r.raised # "" THEN RaisesOut(r.dicom, r.raised)
         ELSE bulk_update_loop(cls, r.dicom, Tail(items),
                               IF r.ret = True THEN Append(successful_tags, Head(items).tag.s)
                               ELSE successful_tags)
bulk_update_tags(cls, d, tag_updates) == bulk_update_loop(cls, d, tag_updates, <<>>)

\* update_patient_dicom_tags of the services class, from tag_mappings on: for
\* each value that is not None, add_dicom_tag_if_missing then update_dicom_tag,
\* each with its exception swallowed, and the tag is appended.
RECURSIVE update_patient_loop(_, _, _)
update_patient_loop(d, items, processed_tags) ==
    IF items = <<>> THEN Returns(d, Py("list", processed_tags))
    ELSE LET tag == Head(items).tag
             value == Head(items).value
         IN IF value = PyNone THEN update_patient_loop(d, Tail(items), processed_tags)
            ELSE LET added == add_dicom_tag_if_missing(d, tag, value).dicom
                     updated == update_dicom_tag("services", added, tag, value).dicom
                 IN update_patient_loop(updated, Tail(items), Append(processed_tags, tag.s))
update_patient_dicom_tags(d, tag_mappings) == update_patient_loop(d, tag_mappings, <<>>)

\* The records the mutators work on: patient ID, patient name, the insurance
\* plan code sequence and patient comments (no key of vr_mappings), each
\* present or not.
TagKeys == {"00100020", "00100010", "00100050", "00104000"}
TagRecords ==
    {[t \in present |->
        CASE t = "00100020" -> [VR |-> "LO", value |-> Py("str", "P7")]
          [] t = "00100010" -> [VR |-> "PN", value |-> Py("str", "DOE^A")]
          [] t = "00100050" -> [VR |-> "SQ", value |-> Py("Sequence", "")]
          [] t = "00104000" -> [VR |-> "LT", value |-> Py("str", "none")]] :
     present \in SUBSET TagKeys}

\* The values written: a text, and a list of texts (no valid sequence).
TagValues == {Py("str", "P9"), Py("list", "x")}
\* The most pairs in one batch; a batch is a dict, so its tags are distinct.
MaxBatch == 2
Batches(values) ==
    {q \in UNION {[1..n -> [tag : {Py("str", t) : t \in TagKeys}, value : values]] :
                        n \in 0..MaxBatch} :
        \A i, j \in DOMAIN q : i # j => q[i].tag # q[j].tag}

NoCall == [cls |-> "", method |-> "", tag |-> PyNone, value |-> PyNone, items |-> <<>>,
           before |-> <<>>]
TagIdle ==
    /\ tpc = "idle"
    /\ elements = <<>>
    /\ called = NoCall
    /\ returned = Returns(<<>>, PyNone)
    /\ isinstance_raises = FALSE
TagInit ==
    /\ tpc = "ready"
    /\ elements \in TagRecords
    /\ called = NoCall
    /\ returned = Returns(<<>>, PyNone)
    /\ isinstance_raises \in BOOLEAN

\* One call on the handler: the record is updated and the outcome kept.
Call(cls, method, tag, value, items, r) ==
    /\ tpc = "ready"
    /\ tpc' = "returned"
    /\ called' = [cls |-> cls, method |-> method, tag |-> tag, value |-> value,
                  items |-> items, before |-> elements]
    /\ elements' = r.dicom
    /\ returned' = [r EXCEPT !.dicom = <<>>]
    /\ UNCHANGED isinstance_raises

call_update_dicom_tag(cls, tag, value) ==
    /\ OnlyTags
    /\ Call(cls, "update_dicom_tag", tag, value, <<>>,
            update_dicom_tag(cls, elements, tag, value))
call_add_dicom_tag_if_missing(cls, tag, value) ==
    /\ OnlyTags
    /\ Call(cls, "add_dicom_tag_if_missing", tag, value, <<>>,
            add_dicom_tag_if_missing(elements, tag, value))
call_bulk_update_tags(cls, tag_updates) ==
    /\ OnlyTags
    /\ Call(cls, "bulk_update_tags", PyNone, PyNone, tag_updates,
            bulk_update_tags(cls, elements, tag_updates))
call_update_patient_dicom_tags(tag_mappings) ==
    /\ OnlyTags
    /\ Call("services", "update_patient_dicom_tags", PyNone, PyNone, tag_mappings,
            update_patient_dicom_tags(elements, tag_mappings))

-----------------------------------------------------------------------------
(* The specifications *)

NetNext ==
    \/ \E readable, accepted \in BOOLEAN, out \in StoreOutcomes :
            upload_file(readable, accepted, out)
    \/ \E readable, accepted \in BOOLEAN, out \in StoreOutcomes :
            upload_file_dataset(readable, accepted, out)
    \/ \E accepted \in BOOLEAN : find_studies(accepted)
    \/ \E r \in FindResponses : find_response(r)
    \/ find_end
    \/ \E out \in Raises(Exceptions) : find_except(out)
    \/ \E uid \in StudyUIDs, probe_accepted, accepted \in BOOLEAN :
            get_study(uid, probe_accepted, accepted)
    \/ \E status \in GetStatuses : get_study_response(status)
    \/ get_study_end
    \/ \E out \in Raises(Exceptions) : get_study_except(out)
    \/ \E uid \in StudyUIDs, accepted \in BOOLEAN, out \in MoveOutcomes :
            move_study(uid, accepted, out)
    \/ \E uid \in StudyUIDs, accepted \in BOOLEAN : get_study_with_pixels(uid, accepted)
    \/ \E dataset \in Datasets : handle_store(dataset)
    \/ \E status \in GetStatuses : get_response(status)
    \/ \E out \in Raises(Exceptions) : get_except(out)
    \/ get_study_with_pixels_end
    \/ \E uid \in StudyUIDs, accepted \in BOOLEAN : find_and_get_study(uid, accepted)
    \/ \E accepted \in BOOLEAN : find_and_get_study_retrieve(accepted)
    \/ find_and_get_study_end

-----------------------------------------------------------------------------
(* Two retrieval calls in flight on the same DicomNetworkInterfaceImp: each *)
(* call has its own frame of locals (ae, ds, received_datasets, the         *)
(* counters, assoc); self is only read (lines 420-476 and 669-725)          *)

Callers == {1, 2}
\* The most store callbacks and status responses the peer sends to the two
\* calls together.
MaxEvents == 4
\* The statuses of their streams: pending with and without failures, success,
\* and a failure carrying final counts.
CallStatuses ==
    {St(0, <<>>), St(65280, Counts(1, 1, 0, 0)), St(65280, Counts(1, 0, 1, 1)),
     St(45056, FinalCounts(1, 1, 1))}
\* The study each caller asks for.
CallUID(c) == IF c = 1 THEN "1.2.1" ELSE "1.2.2"

\* A frame before the call: no locals yet. `pushed` and `answered` record
\* what the peer sent over the call's own association: the datasets handed to
\* its store callback and the statuses of its response stream.
NoFrame ==
    [pc |-> "idle", op |-> "none", study_instance_uid |-> "",
     received_datasets |-> <<>>, ctr |-> ZeroCtr,
     pushed |-> <<>>, answered |-> <<>>, data |-> <<>>]
CallsIdle == calls = [c \in Callers |-> NoFrame]

Events == Len(calls[1].pushed) + Len(calls[1].answered)
            + Len(calls[2].pushed) + Len(calls[2].answered)

closure_of_Instance(c) == 1
\* The frame whose received_datasets the handle_store of call c appends to:
\* the closure is defined inside the call and captures the call's own local
\* (lines 451-462 and 698-705); ae.associate binds it to the call's own
\* association (lines 470-476 and 707-713).
closure_of(c) == c

\* Lines 418-493 and 660-725: the locals are created and the association is
\* opened.
call_retrieval(c, name) ==
    /\ OnlyCalls
    /\ calls[c].pc = "idle"
    /\ calls' = [calls EXCEPT ![c] =
                    [NoFrame EXCEPT !.pc = "get_drain", !.op = name,
                                    !.study_instance_uid = CallUID(c)]]

\* handle_store(event) of call c runs: the peer stored one dataset back over
\* the association of c.
call_handle_store(c, dataset) ==
    /\ OnlyCalls
    /\ calls[c].pc = "get_drain"
    /\ Events < MaxEvents
    /\ calls' = [calls EXCEPT
                    ![c].pushed = Append(@, dataset),
                    ![closure_of(c)].received_datasets = Append(@, dataset)]

\* One iteration of the response loop of call c.
call_get_response(c, status) ==
    /\ OnlyCalls
    /\ calls[c].pc = "get_drain"
    /\ Events < MaxEvents
    /\ calls' = [calls EXCEPT
                    ![c].answered = Append(@, status),
                    ![c].ctr = get_loop_body(@, status)]

\* The stream of call c is exhausted: its result is built from its locals
\* (lines 526-608 and 750-835).
call_return(c) ==
    /\ OnlyCalls
    /\ calls[c].pc = "get_drain"
    /\ LET f == calls[c] IN
       calls' = [calls EXCEPT
                    ![c].pc = "returned",
                    ![c].data =
                        IF f.op = "get_study_with_pixels"
                        THEN [summary |-> [total_instances |-> Len(f.received_datasets),
                                           study_instance_uid |-> f.study_instance_uid,
                                           completed |-> f.ctr.completed,
                                           failed_operations |-> f.ctr.failed,
                                           warning_operations |-> f.ctr.warning],
                              instances |-> Map(instance_dict, f.received_datasets)]
                        ELSE [summary |-> summary_of(f.received_datasets, f.study_instance_uid,
                                                     PyNone, f.ctr),
                              series |-> series_list_of(f.received_datasets)]]

Init == NetIdle /\ QueryIdle /\ MetaIdle /\ AggIdle /\ TagIdle /\ CallsIdle
Next == NetNext
Spec == Init /\ [][Next]_vars

QueryNext ==
    \/ \E qp \in Dicts(DirectKeys, FilterValues) : find_studies_template(qp)
    \/ \E args \in [HttpParams -> HttpValues] : http_find_studies(args)

NextQuery == QueryNext
SpecQuery == Init /\ [][NextQuery]_vars

MetaNext == ExtractFull \/ ExtractDicomMetadata

InitMeta == NetIdle /\ QueryIdle /\ MetaInit /\ AggIdle /\ TagIdle /\ CallsIdle
NextMeta == MetaNext
SpecMeta == InitMeta /\ [][NextMeta]_vars

\* The same two calls on the records of FrameRecords.
InitFrames ==
    /\ NetIdle /\ QueryIdle /\ AggIdle /\ TagIdle /\ CallsIdle
    /\ mpc = "read"
    /\ dicom \in FrameRecords
    /\ extractor = <<>>
    /\ metadata = NoMetadata
SpecFrames == InitFrames /\ [][NextMeta]_vars

TagNext ==
    \/ \E cls \in Classes, t \in TagKeys, value \in TagValues :
            call_update_dicom_tag(cls, Py("str", t), value)
    \/ \E cls \in Classes, t \in TagKeys, value \in TagValues :
            call_add_dicom_tag_if_missing(cls, Py("str", t), value)
    \/ \E cls \in Classes, tag_updates \in Batches(TagValues) :
            call_bulk_update_tags(cls, tag_updates)
    \/ \E tag_mappings \in Batches(TagValues \cup {PyNone}) :
            call_update_patient_dicom_tags(tag_mappings)
InitTags == NetIdle /\ QueryIdle /\ MetaIdle /\ AggIdle /\ TagInit /\ CallsIdle
NextTags == TagNext
SpecTags == InitTags /\ [][NextTags]_vars

AggNext ==
    \/ select_storage_contexts
    \/ \E datasets \in Arrivals : group_and_sort(datasets)
InitAgg == NetIdle /\ QueryIdle /\ MetaIdle /\ AggInit /\ TagIdle /\ CallsIdle
NextAgg == AggNext
SpecAgg == InitAgg /\ [][NextAgg]_vars

\* The same two steps on the datasets of ConvertDatasets.
ConvertNext ==
    \/ select_storage_contexts
    \/ \E datasets \in ConvertArrivals : group_and_sort(datasets)
SpecConvert == InitAgg /\ [][ConvertNext]_vars

CallsNext ==
    \/ \E c \in Callers, name \in {"get_study_with_pixels", "find_and_get_study"} :
            call_retrieval(c, name)
    \/ \E c \in Callers, dataset \in Datasets : call_handle_store(c, dataset)
    \/ \E c \in Callers, status \in CallStatuses : call_get_response(c, status)
    \/ \E c \in Callers : call_return(c)
SpecCalls == Init /\ [][CallsNext]_vars


-----------------------------------------------------------------------------
(* Properties of the reconciler (SpecMeta) *)

Blank == Py("str", "")

\* The two extraction paths of a logical field, as extract_dicom_metadata
\* pairs them: <<primary, fallback>>.
PathsOf(field) ==
    CASE field = "study_instance_uid" ->
            <<extractor.tag_extraction.study_info.StudyInstanceUID,
              extractor.attribute_extraction.study_info.StudyInstanceUID>>
      [] field = "series_instance_uid" ->
            <<extractor.tag_extraction.series_info.SeriesInstanceUID,
              extractor.attribute_extraction.series_info.SeriesInstanceUID>>
      [] field = "instance_uid" ->
            <<extractor.tag_extraction.image_info.SOPInstanceUID,
              extractor.attribute_extraction.instance_info.SOPInstanceUID>>
      [] field = "description" ->
            <<extractor.tag_extraction.study_info.StudyDescription,
              extractor.attribute_extraction.series_info.SeriesDescription>>
      [] field = "modality" ->
            <<extractor.tag_extraction.series_info.Modality,
              extractor.attribute_extraction.series_info.Modality>>
      [] field = "transfer_syntax" ->
            <<extractor.file_metadata.TransferSyntaxUID,
              extractor.tag_extraction.transfer_syntax.TransferSyntaxUID>>

AbsentFromBothPaths(field) == PathsOf(field)[1] = Blank /\ PathsOf(field)[2] = Blank

\* C1: when a critical field (study UID, series UID, instance UID, modality,
\* transfer syntax) is absent from both extraction paths, extract_dicom_metadata
\* raises ValueError listing exactly the missing critical fields and returns no
\* metadata.
C1_MissingCriticalFieldRaises ==
    mpc = "done" =>
        LET missing == SelectSeq(critical_fields, AbsentFromBothPaths) IN
        missing # <<>> =>
            /\ metadata.raised = "ValueError"
            /\ metadata.missing_fields = missing

\* C2: each of study UID, series UID, instance UID, description and modality
\* is resolved by ordered fallback: the tag-path value when present, else the
\* attribute-path value when present, else null.
C2_OrderedFallback ==
    (mpc = "done" /\ metadata.raised = "") =>
        \A field \in {"study_instance_uid", "series_instance_uid", "instance_uid",
                      "description", "modality"} :
            metadata.value[field] =
                IF PathsOf(field)[1] # Blank THEN PathsOf(field)[1]
                ELSE IF PathsOf(field)[2] # Blank THEN PathsOf(field)[2]
                ELSE PyNone

-----------------------------------------------------------------------------
(* Properties of the network operations (Spec) *)

Retrievals == {"get_study_with_pixels", "find_and_get_study"}

\* The current stream delivered a status satisfying P.
Delivered(P(_)) == \E i \in DOMAIN stream : P(stream[i].status)
IsFailureOrCancel(status) ==
    status.valid /\ code_to_category(status.Status) \in {"Failure", "Cancel"}
IsEmptyStatus(status) == ~status.valid
IsSuccess(status) == status.valid /\ status.Status = 0

\* C3: in get_study_with_pixels and find_and_get_study, when the retrieval
\* stream delivers a Failure or Cancel status the operation ends aborted:
\* abort() is called on the association, release() is not, and the result has
\* success = false.
C3_FailureStatusAborts ==
    (pc = "done" /\ op \in Retrievals /\ Cur.kind = "get" /\ Delivered(IsFailureOrCancel)) =>
        /\ Cur.abort_calls >= 1
        /\ Cur.release_calls = 0
        /\ ~result.success

\* C4: in find_studies, get_study_with_pixels and find_and_get_study, an empty
\* status received while draining is surfaced as a transport failure: the
\* result has success = false.
C4_EmptyStatusIsFailure ==
    (pc = "done" /\ op \in Retrievals \cup {"find_studies"} /\ Delivered(IsEmptyStatus)) =>
        ~result.success

\* The result of the function whose handler caught the exception: find_studies
\* hands its result to find_and_get_study when called from it.
HandlerResult ==
    IF op = "find_and_get_study" /\ Cur.kind = "find" THEN find_result.result ELSE result

\* C5: in upload_file, upload_file_dataset, find_studies, move_study,
\* get_study_with_pixels and find_and_get_study, when an exception is raised
\* after the association was established and the association is still
\* established, abort() is called on it, release() is not, and the function
\* returns a failure result with status_code 500 carrying the exception message.
C5_ExceptionAborts ==
    (/\ pc \in {"done", "find_returned"}
     /\ op \in {"upload_file", "upload_file_dataset", "find_studies", "move_study",
                "get_study_with_pixels", "find_and_get_study"}
     /\ raised.e # ""
     /\ raised.established) =>
        /\ Cur.abort_calls = 1
        /\ Cur.release_calls = 0
        /\ ~Cur.is_established
        /\ ~HandlerResult.success
        /\ HandlerResult.status_code = 500
        /\ HandlerResult.exc = raised.e

\* C5 witness: the retrieval phase of find_and_get_study raised after a
\* response, on an association still established, and it was aborted.
C5_Witness ==
    /\ pc = "done"
    /\ op = "find_and_get_study"
    /\ Cur.kind = "get"
    /\ Len(stream) > 0
    /\ raised.e = "E2"
    /\ raised.established
    /\ Cur.abort_calls = 1
    /\ result.exc = "E2"

\* C6: in find_studies, get_study, move_study, get_study_with_pixels and
\* find_and_get_study, release() is called on an association only after its
\* response stream was drained to exhaustion or a success status was observed;
\* on every other exit from an in-flight operation the association is aborted,
\* not released.
C6_ReleaseOnlyAfterDrain ==
    (op \in {"find_studies", "get_study", "move_study"} \cup Retrievals) =>
        \A i \in DOMAIN assocs :
            LET a == assocs[i]
                finished == a.drained \/ (i = Len(assocs) /\ Delivered(IsSuccess))
            IN a.sent =>
                /\ a.release_calls > 0 => finished
                /\ (pc = "done" /\ i = Len(assocs) /\ ~finished /\ raised.established) =>
                        a.abort_calls > 0 /\ a.release_calls = 0

\* The records of the pending entries of the stream that carry a non-empty
\* identifier, in stream order.
PendingRecords ==
    Map(LAMBDA r : find_result_dict(r.identifier),
        SelectSeq(stream, LAMBDA r : /\ r.status.valid
                                     /\ code_to_category(r.status.Status) = "Pending"
                                     /\ Truthy(r.identifier)))

\* C7: the data list find_studies returns consists of exactly the records of
\* the pending-status entries that carry a non-empty identifier, in stream
\* order; entries with another status are skipped without stopping the drain.
C7_DataIsPendingRecords ==
    (pc = "done" /\ op = "find_studies" /\ result.success) => data = PendingRecords

\* C8: in get_study_with_pixels and find_and_get_study, summary.completed is
\* true if and only if a response with status 0x0000 was observed in the
\* retrieval stream, whatever failure, cancel or warning entries came before it.
C8_CompletedIffSuccessObserved ==
    (pc = "done" /\ op \in Retrievals /\ result.success) =>
        (data.summary.completed <=> Delivered(IsSuccess))

\* C8 witness: a failure entry, then a success entry, and completed is true.
C8_Witness ==
    /\ pc = "done"
    /\ op \in Retrievals
    /\ result.success
    /\ Len(stream) >= 2
    /\ IsFailureOrCancel(stream[1].status)
    /\ IsSuccess(stream[2].status)
    /\ data.summary.completed

-----------------------------------------------------------------------------
(* Properties of the query template (SpecQuery) *)

Supplied(key) == key \in DOMAIN query_params

\* C9: the QueryRetrieveLevel of the template is SERIES when a series
\* identifier is supplied; STUDY when a study identifier and no series
\* identifier is supplied; PATIENT when a patient identifier and neither of the
\* others is supplied; STUDY when none is supplied.
C9_LevelSelection ==
    qpc # "idle" =>
        ds["QueryRetrieveLevel"] =
            Py("str", IF Supplied("SeriesInstanceUID") THEN "SERIES"
                      ELSE IF Supplied("StudyInstanceUID") THEN "STUDY"
                      ELSE IF Supplied("PatientID") THEN "PATIENT"
                      ELSE "STUDY")

\* C9 witness: a patient and a series identifier are supplied, no study
\* identifier, and the level is SERIES.
C9_Witness ==
    /\ qpc = "direct"
    /\ Supplied("PatientID")
    /\ Supplied("SeriesInstanceUID")
    /\ ~Supplied("StudyInstanceUID")
    /\ ds["QueryRetrieveLevel"] = Py("str", "SERIES")

\* C10 as stated: through the HTTP find endpoint, a filter the caller did not
\* supply does not appear on the template, while a supplied one, blank or not,
\* appears verbatim.
C10_OmittedFilterNotOnTemplate ==
    qpc = "http" =>
        \A p \in HttpParams :
            IF http_args[p] = PyNone THEN p \notin DOMAIN ds
            ELSE p \in DOMAIN ds /\ ds[p] = http_args[p]

\* C10 as amended: through the HTTP find endpoint, an omitted filter is not
\* distinguished from a blank one: every filter of the endpoint appears on the
\* template, as an empty wildcard filter when omitted or blank and verbatim
\* otherwise, and the level is always STUDY.
C10_OmittedFilterIsBlank ==
    qpc = "http" =>
        /\ \A p \in HttpParams :
                /\ p \in DOMAIN ds
                /\ ds[p] = IF http_args[p] = PyNone THEN Py("str", "") ELSE http_args[p]
        /\ ds["QueryRetrieveLevel"] = Py("str", "STUDY")

\* C10 witness: PatientID omitted, AccessionNumber blank, PatientName given.
C10_Witness ==
    /\ qpc = "http"
    /\ http_args["PatientID"] = PyNone
    /\ http_args["AccessionNumber"] = Py("str", "")
    /\ http_args["PatientName"] = Py("str", "X1")
    /\ ds["PatientID"] = Py("str", "")
    /\ ds["AccessionNumber"] = Py("str", "")
    /\ ds["PatientName"] = Py("str", "X1")

-----------------------------------------------------------------------------
(* Properties of the aggregation of find_and_get_study (SpecAgg) *)

\* A series whose SeriesNumber is a non-negative integer.
NumericSeries(g) == g.SeriesNumber.py = "int" /\ g.SeriesNumber.s >= 0

\* C11: the series list find_and_get_study returns is sorted by ascending
\* numeric SeriesNumber, and every series whose SeriesNumber is non-numeric or
\* absent comes after every series whose SeriesNumber is numeric, for every
\* non-negative integer series number.
C11_SeriesSortedNumericFirst ==
    fpc = "done" =>
        \A i, j \in DOMAIN series_list :
            i < j =>
                /\ (NumericSeries(series_list[i]) /\ NumericSeries(series_list[j])) =>
                        series_list[i].SeriesNumber.s <= series_list[j].SeriesNumber.s
                /\ NumericSeries(series_list[j]) => NumericSeries(series_list[i])

\* The records received for the series `uid`, in arrival order.
RecordsOfSeries(uid) ==
    SelectSeq(received, LAMBDA d : /\ HasAttr(d, "SeriesInstanceUID")
                                   /\ Str(Attr(d, "SeriesInstanceUID")) = uid)
SeriesReceived ==
    {Str(Attr(d, "SeriesInstanceUID")) :
        d \in {x \in Range(received) : HasAttr(x, "SeriesInstanceUID")}}

\* C12: find_and_get_study groups the received records by series identifier:
\* exactly one group per distinct SeriesInstanceUID; the group's
\* SeriesDescription, Modality and SeriesNumber are those of the first record
\* received for the series; its instance list holds the records of the series
\* in arrival order.
C12_OneGroupPerSeries ==
    fpc = "done" =>
        /\ {g.SeriesInstanceUID : g \in Range(series_list)} = SeriesReceived
        /\ Len(series_list) = Cardinality(SeriesReceived)
        /\ \A g \in Range(series_list) :
                LET mine == RecordsOfSeries(g.SeriesInstanceUID) IN
                /\ g.SeriesDescription = GetAttr(mine[1], "SeriesDescription")
                /\ g.Modality = GetAttr(mine[1], "Modality")
                /\ g.SeriesNumber = GetAttr(mine[1], "SeriesNumber")
                /\ g.instances = Map(instance_dict, mine)
                /\ g.InstanceCount = Len(mine)

\* C12 witness: two records of series S1 arrive around one of series S2; the
\* later S1 record differs in description, modality and number, and the S1
\* group keeps those of the first and lists both instances.
C12_Witness ==
    /\ fpc = "done"
    /\ received = <<Instance("1.1", "S1", 2, "Axial", "CT"),
                    Instance("2.1", "S2", 1, "", "MR"),
                    Instance("1.2", "S1", 1, "Sag", "MR")>>
    /\ Len(series_list) = 2
    /\ series_list[2].SeriesInstanceUID = Py("str", "S1")
    /\ series_list[2].SeriesDescription = Py("str", "Axial")
    /\ Len(series_list[2].instances) = 2

\* The modality tokens of the discovery record: the parts of a textual
\* ModalitiesInStudy, the items of a multi-valued one.
ModalityTokens ==
    IF "ModalitiesInStudy" \notin DOMAIN discovered THEN {}
    ELSE LET v == discovered["ModalitiesInStudy"] IN
         IF v.py = "str" THEN {strip(t) : t \in Range(split_backslash(v.s))}
         ELSE Range(v.s)

\* C13: the storage contexts find_and_get_study requests are the union of the
\* baseline set with the contexts of the recognized modality tokens (CT, MR,
\* US) of the discovery record; every baseline context is requested, each
\* context exactly once, and an unrecognized token adds none.
C13_StorageContexts ==
    fpc \in {"retrieving", "done"} =>
        LET wanted == Range(common_contexts)
                      \cup {modality_context(t) : t \in ModalityTokens \cap {"CT", "MR", "US"}}
        IN /\ Range(requested) = wanted
           /\ Len(requested) = Cardinality(wanted)

\* C13 witness: the discovery record names the modality CT, padded, and the
\* CT context is requested once together with the rest of the baseline.
C13_Witness ==
    /\ fpc = "retrieving"
    /\ "ModalitiesInStudy" \in DOMAIN discovered
    /\ discovered["ModalitiesInStudy"] = Py("str", " CT")
    /\ Len(requested) = 3
    /\ "CTImageStorage" \in Range(requested)

-----------------------------------------------------------------------------
(* Further properties of the network operations (Spec) *)

\* Discovery failed or returned no record.
DiscoveryFoundNothing == ~find_result.result.success \/ results = <<>>

\* C14: find_and_get_study is two-phase and ordered: the discovery (C-FIND)
\* association is opened, drained and closed before the retrieval (C-GET)
\* association is opened; when discovery fails or returns no record, no
\* retrieval association is opened and the result is a failure with
\* status_code 404.
C14_DiscoveryBeforeRetrieval ==
    op = "find_and_get_study" =>
        /\ \A i \in DOMAIN assocs :
                assocs[i].kind = "get" =>
                    /\ i = 2
                    /\ assocs[1].kind = "find"
                    /\ assocs[1].sent
                    /\ assocs[1].drained
                    /\ assocs[1].release_calls = 1
                    /\ ~assocs[1].is_established
        /\ (find_result.returned /\ pc # "find_returned" /\ DiscoveryFoundNothing) =>
                /\ \A i \in DOMAIN assocs : assocs[i].kind # "get"
                /\ pc = "done"
                /\ ~result.success
                /\ result.status_code = 404

\* C14 witness: discovery was drained successfully without a record, and the
\* operation ended with 404 on the discovery association alone.
C14_Witness ==
    /\ op = "find_and_get_study"
    /\ pc = "done"
    /\ find_result.result.success
    /\ results = <<>>
    /\ Len(stream) > 0
    /\ Len(assocs) = 1
    /\ Cur.drained
    /\ result.status_code = 404

AssociationFailureMessages ==
    {"Failed to establish association",
     "Failed to establish association for C-FIND",
     "Failed to establish association for C-GET",
     "Failed to establish association for C-MOVE"}

\* C15: in every network operation (both phases of find_and_get_study
\* included), when the transport rejects the association the operation sends
\* no request on it, opens no further association, and returns to its caller
\* a failure DicomResult whose message reports that the association could not
\* be established.
C15_RejectedAssociation ==
    \A i \in DOMAIN assocs :
        ~assocs[i].accepted =>
            /\ ~assocs[i].sent
            /\ i = Len(assocs)
            /\ pc \in {"done", "find_returned"}
            /\ ~HandlerResult.success
            /\ HandlerResult.message \in AssociationFailureMessages

-----------------------------------------------------------------------------
(* Properties of the frame count (SpecFrames) *)

Holds(keyword) == tag_for_keyword(keyword) \in DOMAIN dicom.elems
ValueOf(keyword) == dicom.elems[tag_for_keyword(keyword)].s
Max(a, b) == IF a >= b THEN a ELSE b

\* C16: extract_frames_by_pixelData_length returns the NumberOfFrames value
\* unchanged when that field is present; otherwise, when PixelData is present
\* with rows, columns and bitsAllocated all positive, it returns
\* max(1, floor(payloadLength / (rows * columns * bitsAllocated / 8))), for
\* every value of bitsAllocated; otherwise it returns 1.  (BitsAllocated
\* defaults to 16 when the record does not hold it, rows and columns to 0.)
C16_FrameCount ==
    mpc \in {"extracted", "done"} =>
        LET rows == IF Holds("Rows") THEN ValueOf("Rows") ELSE 0
            columns == IF Holds("Columns") THEN ValueOf("Columns") ELSE 0
            bits == IF Holds("BitsAllocated") THEN ValueOf("BitsAllocated") ELSE 16
        IN /\ extractor.frames.py = "int"
           /\ extractor.frames.s =
                IF Holds("NumberOfFrames") THEN ValueOf("NumberOfFrames")
                ELSE IF Holds("PixelData") /\ rows > 0 /\ columns > 0 /\ bits > 0
                THEN Max(1, (8 * ValueOf("PixelData")) \div (rows * columns * bits))
                ELSE 1

-----------------------------------------------------------------------------
(* Further properties of the reconciler (SpecMeta) *)

\* C19: extract_dicom_metadata applies the literal defaults for unresolved
\* patient fields: issuer_of_patient_id is "DCM4CHEE" when the record carries
\* no issuer of patient ID, patient_id is "1" when it carries no patient ID,
\* and the record's own value is output when the field is present.
C19_PatientDefaults ==
    (mpc = "done" /\ metadata.raised = "") =>
        /\ metadata.value.issuer_of_patient_id =
                IF "00100021" \in DOMAIN dicom.elems
                THEN Str(dicom.elems["00100021"]) ELSE Py("str", "DCM4CHEE")
        /\ metadata.value.patient_id =
                IF "00100020" \in DOMAIN dicom.elems
                THEN Str(dicom.elems["00100020"]) ELSE Py("str", "1")

\* C20: extract_dicom_metadata resolves pixel_spacing as the geometry-derived
\* pair (physical delta x, physical delta y) when the region sequence yields
\* it; otherwise the PixelSpacing tag field split on "; "; and null when both
\* are absent.
C20_PixelSpacing ==
    (mpc = "done" /\ metadata.raised = "") =>
        LET spacing == metadata.value.pixel_spacing IN
        IF extractor.pixel_info.present
        THEN /\ spacing.py = "list"
             /\ spacing.s = <<extractor.pixel_info.physical_delta_x,
                              extractor.pixel_info.physical_delta_y>>
        ELSE IF "00280030" \in DOMAIN dicom.elems
        THEN /\ spacing.py = "list"
             /\ spacing.s = SplitSemi(extractor.tag_extraction.geometry.PixelSpacing.s)
        ELSE spacing.py = "NoneType"

\* A write the record can take: a text value, to an element that is absent
\* or is no sequence element.
Writable(tag, value, before) ==
    /\ value.py = "str"
    /\ tag.s \in DOMAIN before => before[tag.s].VR # "SQ"

\* C17: in each DicomMetadataHandler class, after update_dicom_tag(identifier,
\* value) on a record where the identifier is present or absent, reading the
\* identifier returns the written value; add_dicom_tag_if_missing on a present
\* identifier returns false and leaves the record unchanged, and on an absent
\* identifier creates it and returns true.
C17_TagRoundTrip ==
    tpc = "returned" =>
        /\ (called.method = "update_dicom_tag"
            /\ Writable(called.tag, called.value, called.before)) =>
                /\ returned.raised = ""
                /\ called.tag.s \in DOMAIN elements
                /\ elements[called.tag.s].value = called.value
        /\ called.method = "add_dicom_tag_if_missing" =>
                IF called.tag.s \in DOMAIN called.before
                THEN /\ returned.raised = ""
                     /\ returned.ret = False
                     /\ elements = called.before
                ELSE Writable(called.tag, called.value, called.before) =>
                        /\ returned.raised = ""
                        /\ returned.ret = True
                        /\ called.tag.s \in DOMAIN elements
                        /\ elements[called.tag.s].value = called.value

\* The identifiers of the pairs a batch attempts, in order (a pair whose value
\* is None is not attempted).
Attempted(items) ==
    LET pairs == SelectSeq(items, LAMBDA p : p.value # PyNone)
    IN [i \in 1..Len(pairs) |-> pairs[i].tag.s]

\* C18: a bulk update attempts every pair in order and returns the list of
\* every identifier processed, those whose write failed included; no failure
\* of one pair raises out of the batch or keeps a later pair from being
\* applied.
C18_BulkProcessesEveryPair ==
    (tpc = "returned"
     /\ called.method \in {"bulk_update_tags", "update_patient_dicom_tags"}) =>
        /\ returned.raised = ""
        /\ returned.ret.py = "list"
        /\ returned.ret.s = Attempted(called.items)
        /\ \A i \in DOMAIN called.items :
                Writable(called.items[i].tag, called.items[i].value, called.before) =>
                    /\ called.items[i].tag.s \in DOMAIN elements
                    /\ elements[called.items[i].tag.s].value = called.items[i].value

-----------------------------------------------------------------------------
(* Properties of the result maps and of the sessions (Spec) *)

\* A result map holds no value that is raw bytes.
NoRawBytes(m) == \A k \in DOMAIN m : m[k].py # "bytes"

\* C21: no result map returned by find_studies, get_study_with_pixels or
\* find_and_get_study holds the raw bytes of a binary-VR element; such an
\* element is reported as a marker text, and pixel data as presence, length
\* and dimensions.
C21_NoRawBytesInResults ==
    (pc = "done" /\ result.success) =>
        CASE op = "find_studies" -> \A i \in DOMAIN data : NoRawBytes(data[i])
          [] op = "get_study_with_pixels" ->
                \A i \in DOMAIN data.instances : NoRawBytes(data.instances[i])
          [] op = "find_and_get_study" ->
                /\ NoRawBytes(data.summary.study_details)
                /\ \A j \in DOMAIN data.series :
                        \A i \in DOMAIN data.series[j].instances :
                            NoRawBytes(data.series[j].instances[i])
          [] OTHER -> TRUE

\* C24: get_study(study_instance_uid) sends a retrieval request that
\* identifies the study of its argument, so that calls with different study
\* UIDs send different requests, and it returns a DicomResult instead of
\* raising to its caller.
C24_GetStudyNamesItsStudy ==
    op = "get_study" =>
        /\ pc # "raised"
        /\ (Cur.kind = "get" /\ Cur.sent) =>
                /\ Cur.request = get_study_request(study_instance_uid)
                /\ \A uid \in StudyUIDs \ {study_instance_uid} :
                        Cur.request # get_study_request(uid)

\* C30: move_study reads the first response of the C-MOVE stream only; when
\* its status is 0x0000 the association is released and a success result
\* (200) is returned, and on any other status the association is aborted and
\* a failure result (500) naming the status is returned.
C30_MoveFirstResponse ==
    (op = "move_study" /\ pc = "done" /\ stream # <<>> /\ stream[1].status.valid) =>
        /\ Len(stream) = 1
        /\ IF stream[1].status.Status = 0
           THEN /\ Cur.release_calls = 1 /\ Cur.abort_calls = 0
                /\ result.success /\ result.status_code = 200
           ELSE /\ Cur.release_calls = 0 /\ Cur.abort_calls = 1
                /\ ~result.success /\ result.status_code = 500
                /\ result.message = "C-MOVE failed with status: "

-----------------------------------------------------------------------------
(* Further properties of the tag mutators (SpecTags) *)

\* C23: when update_dicom_tag or add_dicom_tag_if_missing creates an absent
\* field, its VR is the one the static table gives for the identifier, passed
\* in its string form, and the VR inferred from the type of the value only
\* when the table does not list the identifier.
C23_VRLookupOrder ==
    (/\ tpc = "returned"
     /\ called.method \in {"update_dicom_tag", "add_dicom_tag_if_missing"}
     /\ called.tag.s \notin DOMAIN called.before
     /\ called.tag.s \in DOMAIN elements) =>
        elements[called.tag.s].VR = determine_vr(called.tag, called.value)

-----------------------------------------------------------------------------
(* Further properties of the aggregation of find_and_get_study (SpecAgg) *)

\* C29: the set of storage contexts find_and_get_study requests for the
\* retrieval association is the baseline set (CT, MR and Ultrasound image
\* storage) for every discovery result, whatever modality tokens it holds.
C29_ContextsIndependentOfDiscovery ==
    fpc \in {"retrieving", "done"} => Range(requested) = CommonContexts

\* C29 witness: the discovery record names MR only, and the CT and Ultrasound
\* contexts are requested with the MR one all the same.
C29_Witness ==
    /\ fpc = "retrieving"
    /\ "ModalitiesInStudy" \in DOMAIN discovered
    /\ discovered["ModalitiesInStudy"] = Py("str", "MR")
    /\ Range(requested) = {"CTImageStorage", "MRImageStorage", "UltrasoundImageStorage"}

RECURSIVE SumInstanceCount(_)
SumInstanceCount(series) ==
    IF series = <<>> THEN 0 ELSE Head(series).InstanceCount + SumInstanceCount(Tail(series))

\* C27: for every sequence of records received by find_and_get_study the
\* summary agrees with the grouped data: total_instances is the sum of
\* InstanceCount over the returned series (every received record is in exactly
\* one returned series) and total_series is the number of returned series.
C27_SummaryAgreesWithSeries ==
    fpc = "done" =>
        /\ summary.total_instances = SumInstanceCount(series_list)
        /\ summary.total_series = Len(series_list)
        /\ \A i \in DOMAIN received :
                Cardinality({j \in DOMAIN series_list :
                    \E k \in DOMAIN series_list[j].instances :
                        series_list[j].instances[k] = instance_dict(received[i])}) = 1

-----------------------------------------------------------------------------
(* Further properties of the retrieval operations (Spec) *)

\* The responses of the stream that carry the named sub-operation count.
Carrying(name) == {i \in DOMAIN stream : stream[i].status.valid /\ hasattr(stream[i].status, name)}
\* The count of the last response that carries it, 0 when none does.
LastCarried(name) ==
    IF Carrying(name) = {} THEN 0
    ELSE stream[CHOOSE i \in Carrying(name) : \A j \in Carrying(name) : j <= i].status.attrs[name]

\* C28: in get_study_with_pixels and find_and_get_study the summary's
\* failed_operations and warning_operations are the failed and warning counts
\* of the last response of the retrieval stream that carries them, pending or
\* terminal, and 0 when no response carries them.
C28_FailedAndWarningCounts ==
    (op \in Retrievals /\ pc = "done" /\ result.success) =>
        /\ data.summary.failed_operations = LastCarried("NumberOfFailedSuboperations")
        /\ data.summary.warning_operations = LastCarried("NumberOfWarningSuboperations")

\* The marker a field gets when its conversion fails or its value is no
\* plain one.
MarkerOf(elem) ==
    IF elem.VR \in {"OB", "OW", "OF", "OD", "UN"} /\ elem.value.py # "bytes"
    THEN Fmt("{VR} data (conversion error)", <<elem.VR>>)
    ELSE IF elem.value.py = "function" THEN Fmt("Function: {keyword}", <<elem.keyword>>)
    ELSE Fmt("Object: {keyword}", <<elem.keyword>>)
Unconvertible(elem) ==
    \/ elem.VR \in {"OB", "OW", "OF", "OD", "UN"} /\ elem.value.py # "bytes"
    \/ elem.VR \notin {"PN", "DA", "TM", "DT", "LO", "SH", "SQ", "OB", "OW", "OF", "OD", "UN"}
       /\ elem.value.py \in {"function", "object"}

\* C25: in the retrieval aggregation a failure to convert one field of one
\* received record is caught locally: the operation does not abort, the field
\* gets its marker, and every other field of the record and every other
\* record still appear in the result.
C25_ConversionFailureIsLocal ==
    fpc \in {"done", "failed"} =>
        /\ fpc = "done"
        /\ \A i \in DOMAIN received :
                HasAttr(received[i], "SeriesInstanceUID") =>
                    \E j \in DOMAIN series_list : \E k \in DOMAIN series_list[j].instances :
                        LET m == series_list[j].instances[k] IN
                        /\ m.SOPInstanceUID = Str(Attr(received[i], "SOPInstanceUID"))
                        /\ \A n \in DOMAIN received[i] :
                                LET elem == received[i][n] IN
                                elem.keyword \notin {"", "PixelData"} =>
                                    /\ elem.keyword \in DOMAIN m
                                    /\ m[elem.keyword] = IF Unconvertible(elem) THEN MarkerOf(elem)
                                                         ELSE convert_elem(elem)


-----------------------------------------------------------------------------
(* Session lifecycle *)

\* The number of times the code closed the association, by either call.
CloseCalls(a) == a.release_calls + a.abort_calls
\* The operation ended in an except handler that found the association no
\* longer established (lost to the peer or the transport while in flight).
LostAtExcept == raised.e # "" /\ ~raised.established

-----------------------------------------------------------------------------
(* Properties of concurrent retrievals (SpecCalls) *)

\* The counters the response loop leaves after the statuses of one stream.
RECURSIVE CountersAfter(_, _)
CountersAfter(c, statuses) ==
    IF statuses = <<>> THEN c
    ELSE CountersAfter(get_loop_body(c, Head(statuses)), Tail(statuses))

\* C22: two retrieval operations running concurrently on the same instance
\* share no mutable state: under every interleaving of their store callbacks
\* and status responses, the accumulator of each call holds exactly the
\* datasets delivered to its own callback, its counters are those of its own
\* stream, and the result it returns is built from these alone.
C22_CallsShareNothing ==
    \A c \in Callers :
        LET f == calls[c] IN
        /\ f.received_datasets = f.pushed
        /\ f.ctr = CountersAfter(ZeroCtr, f.answered)
        /\ f.pc = "returned" =>
            /\ f.data.summary.total_instances = Len(f.pushed)
            /\ f.data.summary.study_instance_uid = CallUID(c)
            /\ f.data.summary.completed = CountersAfter(ZeroCtr, f.answered).completed
            /\ f.data.summary.failed_operations = CountersAfter(ZeroCtr, f.answered).failed
            /\ f.data.summary.warning_operations = CountersAfter(ZeroCtr, f.answered).warning
            /\ f.op = "get_study_with_pixels" =>
                    f.data.instances = Map(instance_dict, f.pushed)
            /\ f.op = "find_and_get_study" =>
                    f.data.series = series_list_of(f.pushed)

\* C22 witness: both calls have returned after the peer sent each of them a
\* different dataset and a different status while both were in flight.
C22_Witness ==
    /\ \A c \in Callers : calls[c].pc = "returned"
    /\ calls[1].pushed = <<DsA>> /\ calls[2].pushed = <<DsB>>
    /\ calls[1].answered = <<St(65280, Counts(1, 0, 1, 1))>>
    /\ calls[2].answered = <<St(0, <<>>)>>
    /\ calls[1].data.summary.failed_operations = 1
    /\ calls[2].data.summary.failed_operations = 0
    /\ calls[2].data.summary.completed
====
